---- MODULE Spec2Model ----
(***************************************************************************)
(* Inventory service of the event-driven services demo                     *)
(* (src/services/inventory-service/main.py).                               *)
(*                                                                         *)
(* The state store is one keyed map ("inventory:<product_id>" and          *)
(* "reservation:<reservation_id>" keys).  Every gRPC handler runs on a     *)
(* worker thread of the server's pool; a handler is modelled as one step   *)
(* per store or bus access, so that handlers of different workers          *)
(* interleave between their accesses exactly as the unsynchronised code    *)
(* lets them.  trace[w] is the list of the store and bus accesses the      *)
(* current call of worker w has made, with the values passed.              *)
(***************************************************************************)
EXTENDS Integers, Sequences, FiniteSets, TLC

(* ------------------------------ bounds -------------------------------- *)

\* Total number of calls issued in one behaviour with concurrent handlers.
MaxCalls == 2

\* Total number of calls issued in one behaviour with serialized handlers.
MaxSeqCalls == 3

\* Worker threads of the gRPC server that are modelled.
Workers == 1..2

\* Calls issued when accesses may raise.
MaxFaultCalls == 2

\* Calls issued when two products are addressed.
MaxTwoCalls == 2

\* Calls issued when Reserve quantities may be zero or negative.
MaxSignedCalls == 2

\* Calls issued when every Release matches a stored reservation.
MaxMatchedCalls == 3

\* Calls issued when the service may be restarted.
MaxRestartCalls == 2

\* Calls issued, and events delivered, when the event handlers run.
MaxEventCalls == 1
MaxEvents == 2

\* Calls of the order client's update_order.
MaxUpdates == 2

(* ------------------------- program constants -------------------------- *)

Seed001 == 50
Seed002 == 200
Seed003 == 75

\* datetime.now().isoformat(): the clock value is abstracted to one token.
Now == "now"

\* A value that is not there: no data under a key, an unset local.
Nil == [nil |-> TRUE]

SampleProduct(id, name, qty, price) ==
    [product_id |-> id, product_name |-> name, available_quantity |-> qty,
     reserved_quantity |-> 0, total_quantity |-> qty, unit_price |-> price]

sample_products ==
    << SampleProduct("prod-001", "Laptop Computer", Seed001, "999.99"),
       SampleProduct("prod-002", "Wireless Mouse", Seed002, "29.99"),
       SampleProduct("prod-003", "Mechanical Keyboard", Seed003, "149.99") >>

(* --------------------------- request inputs --------------------------- *)

\* product_id values of requests: the seeded products and an unknown one.
ProductIds == {"prod-001", "prod-002", "prod-003", "prod-404"}
\* The product_id values the clients of the specifications below send.
OneProduct == {"prod-001", "prod-404"}
\* quantity values of Reserve, Release and CheckAvailability requests.
Quantities == {10, 20, 50}
\* quantity_change values of UpdateInventory requests.
QuantityChanges == {-45, 20}
OrderIds == {"order-1"}
CustomerIds == {"cust-1"}
Reasons == {"restock"}
\* uuid4 values, in the order str(uuid.uuid4()) returns them: each call
\* returns a value it never returned before; nothing else is read from it.
UuidSeq == << "uuid-1", "uuid-2", "uuid-3", "uuid-4", "uuid-5" >>
Uuids == {UuidSeq[i] : i \in DOMAIN UuidSeq}
\* The event_id of an envelope (a uuid4 the service never reads again).
EventId == "event-uuid"
\* A reservation id no Reserve call ever returned.
UnknownReservationId == "uuid-none"

(* ----------------------------- state ---------------------------------- *)

VARIABLES
    store,           \* the state store: key -> stored value
    pc,              \* per worker: where its handler stands
    request,         \* per worker: the request being handled
    inventory_data,  \* per worker: the handler's local inventory_data
    reservation_id,  \* per worker: the handler's local reservation_id
    response,        \* per worker: the response returned
    status_code,     \* per worker: the gRPC status code of the context
    trace,           \* per worker: store and bus accesses of the call
    issued,          \* uuid4 values generated so far
    calls,           \* calls issued so far
    callno,          \* per worker: the number of its current call
    runs,            \* per product: the open runs of successful Reserves
    matched,         \* per worker: the runs a Release closes
    events,          \* the event handlers' invocations: event and return value
    order_status,    \* order client: the status of the order at the order service
    sent             \* order client: the UpdateOrder requests it has sent

\* The state the gRPC handlers of the inventory service never touch.
outside == << events, order_status, sent >>

vars == << store, pc, request, inventory_data, reservation_id, response,
           status_code, trace, issued, calls, callno, runs, matched,
           events, order_status, sent >>

(* ------------------------- the state store ---------------------------- *)

InventoryKey(product_id) == "inventory:" \o product_id

ReservationKey(rid) == "reservation:" \o rid

IsReservationKey(k) ==
    k \in {ReservationKey(u) : u \in Uuids \cup {UnknownReservationId, ""}}

IsInventoryKey(k) == k \in {InventoryKey(p) : p \in ProductIds}

\* dapr_client.get_state: result.data, empty when the key holds nothing.
GetState(s, key) == IF key \in DOMAIN s THEN s[key] ELSE Nil

\* `if not result.data`
NoData(data) == data = Nil

\* dapr_client.save_state: the whole value replaces what the key held.
SaveState(s, key, value) ==
    [k \in DOMAIN s \cup {key} |-> IF k = key THEN value ELSE s[k]]

\* dapr_client.delete_state: no error when the key holds nothing.
DeleteState(s, key) == [k \in DOMAIN s \ {key} |-> s[k]]

\* Variant: a sample product is saved only when the store has no record of it.
RECURSIVE InitializeSampleData_IfAbsent(_, _)
InitializeSampleData_IfAbsent(s, i) ==
    IF i > Len(sample_products) THEN s
    ELSE LET key == InventoryKey(sample_products[i].product_id)
         IN InitializeSampleData_IfAbsent(
                IF key \in DOMAIN s THEN s
                ELSE SaveState(s, key, sample_products[i]), i + 1)

\* InventoryService._initialize_sample_data: every sample product is saved.
RECURSIVE InitializeSampleData(_, _)
InitializeSampleData(s, i) ==
    IF i > Len(sample_products) THEN s
    ELSE InitializeSampleData(
             SaveState(s, InventoryKey(sample_products[i].product_id),
                       sample_products[i]), i + 1)

\* The store before the service first starts.
EmptyStore == [k \in {} |-> Nil]

(* --------------------------- trace entries ---------------------------- *)

Access(call, key, value, had) ==
    [call |-> call, key |-> key, value |-> value, had |-> had]

Saves(tr) == {i \in DOMAIN tr : tr[i].call = "save_state"}
Deletes(tr) == {i \in DOMAIN tr : tr[i].call = "delete_state"}
Gets(tr) == {i \in DOMAIN tr : tr[i].call = "get_state"}
Publishes(tr) == {i \in DOMAIN tr : tr[i].call = "publish_event"}

(* ---------------------------- requests -------------------------------- *)

Request(op, product_id, quantity, order_id, customer_id, rid, change, reason) ==
    [op |-> op, product_id |-> product_id, quantity |-> quantity,
     order_id |-> order_id, customer_id |-> customer_id,
     reservation_id |-> rid, quantity_change |-> change, reason |-> reason]

\* The pool hands a request to an idle thread; its threads are
\* interchangeable, so the first idle one stands for any of them.
FirstIdle(w) ==
    /\ pc[w] = "idle"
    /\ \A v \in Workers : v < w => pc[v] # "idle"

\* A worker takes a request: the handler is entered with fresh locals.
Enter(w, req, limit) ==
    /\ FirstIdle(w)
    /\ calls < limit
    /\ pc' = [pc EXCEPT ![w] = "get"]
    /\ request' = [request EXCEPT ![w] = req]
    /\ calls' = calls + 1
    /\ callno' = [callno EXCEPT ![w] = calls + 1]
    /\ UNCHANGED << store, inventory_data, reservation_id, response,
                    status_code, trace, issued, runs, matched >>
    /\ UNCHANGED outside

\* The handler returns `resp`: the worker holds it until it is released.
Return(w, resp) ==
    /\ pc' = [pc EXCEPT ![w] = "done"]
    /\ response' = [response EXCEPT ![w] = resp]

(* ------------------------ ReserveInventory ---------------------------- *)

ReserveInventoryResponse(success, rid, message) ==
    [success |-> success, reservation_id |-> rid, message |-> message]

\* Variant: the quantity is compared with all the stock, reserved included.
Insufficient_AgainstTotal(data, quantity) ==
    data.available_quantity + data.reserved_quantity < quantity

\* `if available_qty < request.quantity`
Insufficient(data, quantity) == data.available_quantity < quantity

\* dict assignment: the key is added when the dict does not hold it.
SetField(data, field, value) ==
    [f \in DOMAIN data \cup {field} |-> IF f = field THEN value ELSE data[f]]

\* Variant: reserved_quantity is left as it was.
ReserveUpdate_KeepsReserved(data, quantity) ==
    SetField([data EXCEPT !.available_quantity = @ - quantity],
             "last_updated", Now)

\* Variant: total_quantity is reduced along with available_quantity.
ReserveUpdate_ReducesTotal(data, quantity) ==
    SetField([data EXCEPT !.available_quantity = @ - quantity,
                          !.reserved_quantity = @ + quantity,
                          !.total_quantity = @ - quantity],
             "last_updated", Now)

\* Variant: the quantity is taken from available_quantity twice.
ReserveUpdate_TakesTwice(data, quantity) ==
    SetField([data EXCEPT !.available_quantity = @ - quantity - quantity,
                          !.reserved_quantity = @ + quantity],
             "last_updated", Now)

\* inventory_data["available_quantity"] -= q; ["reserved_quantity"] += q
ReserveUpdate(data, quantity) ==
    SetField([data EXCEPT !.available_quantity = @ - quantity,
                          !.reserved_quantity = @ + quantity],
             "last_updated", Now)

\* Variant: the quantity of the request is not copied into the record.
reservation_data_NoQuantity(rid, req) ==
    [reservation_id |-> rid, product_id |-> req.product_id,
     quantity |-> 0, order_id |-> req.order_id,
     customer_id |-> req.customer_id, created_at |-> Now]

reservation_data(rid, req) ==
    [reservation_id |-> rid, product_id |-> req.product_id,
     quantity |-> req.quantity, order_id |-> req.order_id,
     customer_id |-> req.customer_id, created_at |-> Now]

ReservedEvent(req, rid, data) ==
    [product_id |-> req.product_id, quantity |-> req.quantity,
     order_id |-> req.order_id, reservation_id |-> rid,
     available_quantity |-> data.available_quantity]

\* Variant: the same value is returned again.
uuid4_Repeats(used) == UuidSeq[1]

\* str(uuid.uuid4())
uuid4(used) == UuidSeq[Cardinality(used) + 1]

\* InventoryService._publish_inventory_event: the envelope handed to the bus.
Envelope(event_type, data) ==
    [event_id |-> EventId, event_type |-> event_type, timestamp |-> Now,
     data |-> data]

\* Variant: the envelope is handed to the bus twice.
PublishInventoryEvent_Twice(tr, event_type, data) ==
    Append(Append(tr, Access("publish_event", event_type,
                             Envelope(event_type, data), FALSE)),
           Access("publish_event", event_type, Envelope(event_type, data), FALSE))

PublishInventoryEvent(tr, event_type, data) ==
    Append(tr, Access("publish_event", event_type, Envelope(event_type, data), FALSE))

\* A run of successful Reserves on one product: the quantities read by its
\* first call, the total reserved so far and the number of calls.
OpenRun(data, quantity) ==
    [available |-> data.available_quantity, reserved |-> data.reserved_quantity,
     sum |-> quantity, n |-> 1]

ExtendRuns(rs, data, quantity) ==
    {[r EXCEPT !.sum = @ + quantity, !.n = @ + 1] : r \in rs}
        \cup {OpenRun(data, quantity)}

\* Variant: a missing record is taken for one with no stock.
ReserveOutcome_MissingIsEmpty(data, quantity) ==
    IF NoData(data) THEN "insufficient"
    ELSE IF data.available_quantity < quantity THEN "insufficient"
    ELSE "reserve"

\* The branch ReserveInventory takes on the data it read; "raise" stands
\* for an exception, which the handler's except clause catches.
ReserveOutcome(data, quantity) ==
    IF NoData(data) THEN "not_found"
    ELSE IF Insufficient(data, quantity) THEN "insufficient"
    ELSE "reserve"

\* Variant: the reply is returned without a status set on the context.
Except_KeepsStatus(w, resp) ==
    /\ Return(w, resp)
    /\ UNCHANGED status_code

\* `except Exception`: the context gets INTERNAL, the reply "Internal error".
Except(w, resp) ==
    /\ status_code' = [status_code EXCEPT ![w] = "INTERNAL"]
    /\ Return(w, resp)

ReserveInventoryGet(w) ==
    /\ pc[w] = "get"
    /\ request[w].op = "ReserveInventory"
    /\ LET key == InventoryKey(request[w].product_id)
           data == GetState(store, key)
           outcome == ReserveOutcome(data, request[w].quantity)
       IN /\ trace' = [trace EXCEPT ![w] =
                 Append(@, Access("get_state", key, data, key \in DOMAIN store))]
          /\ CASE outcome = "not_found" ->
                  /\ Return(w, ReserveInventoryResponse(FALSE, "", "Product not found"))
                  /\ UNCHANGED << inventory_data, status_code >>
               [] outcome = "insufficient" ->
                  /\ Return(w, ReserveInventoryResponse(FALSE, "", "Insufficient inventory"))
                  /\ inventory_data' = [inventory_data EXCEPT ![w] = data]
                  /\ UNCHANGED status_code
               [] outcome = "reserve" ->
                  /\ inventory_data' = [inventory_data EXCEPT ![w] =
                                           ReserveUpdate(data, request[w].quantity)]
                  /\ pc' = [pc EXCEPT ![w] = "save_inventory"]
                  /\ UNCHANGED << response, status_code >>
               [] OTHER ->
                  /\ Except(w, ReserveInventoryResponse(FALSE, "", "Internal error"))
                  /\ UNCHANGED inventory_data
    /\ UNCHANGED << store, request, reservation_id, issued, calls,
                    callno, runs, matched >>
    /\ UNCHANGED outside

ReserveInventorySave(w) ==
    /\ pc[w] = "save_inventory"
    /\ request[w].op = "ReserveInventory"
    /\ LET key == InventoryKey(request[w].product_id)
       IN /\ store' = SaveState(store, key, inventory_data[w])
          /\ trace' = [trace EXCEPT ![w] =
                 Append(@, Access("save_state", key, inventory_data[w],
                                  key \in DOMAIN store))]
    /\ pc' = [pc EXCEPT ![w] = "save_reservation"]
    /\ UNCHANGED << request, inventory_data, reservation_id, response,
                    status_code, issued, calls, callno, runs, matched >>
    /\ UNCHANGED outside

ReserveInventorySaveReservation(w) ==
    /\ pc[w] = "save_reservation"
    /\ request[w].op = "ReserveInventory"
    /\ LET rid == uuid4(issued)
           key == ReservationKey(rid)
       IN /\ reservation_id' = [reservation_id EXCEPT ![w] = rid]
          /\ issued' = issued \cup {rid}
          /\ store' = SaveState(store, key, reservation_data(rid, request[w]))
          /\ trace' = [trace EXCEPT ![w] =
                 Append(@, Access("save_state", key,
                                  reservation_data(rid, request[w]),
                                  key \in DOMAIN store))]
    /\ pc' = [pc EXCEPT ![w] = "publish"]
    /\ UNCHANGED << request, inventory_data, response, status_code, calls,
                    callno, runs, matched >>
    /\ UNCHANGED outside

ReserveInventoryPublish(w) ==
    /\ pc[w] = "publish"
    /\ request[w].op = "ReserveInventory"
    /\ trace' = [trace EXCEPT ![w] =
           PublishInventoryEvent(@, "inventory.reserved",
               ReservedEvent(request[w], reservation_id[w], inventory_data[w]))]
    /\ Return(w, ReserveInventoryResponse(TRUE, reservation_id[w],
                                          "Inventory reserved successfully"))
    /\ runs' = [runs EXCEPT ![request[w].product_id] =
           ExtendRuns(@, trace[w][1].value, request[w].quantity)]
    /\ UNCHANGED << store, request, inventory_data, reservation_id,
                    status_code, issued, calls, callno, matched >>
    /\ UNCHANGED outside

(* ------------------------ ReleaseInventory ---------------------------- *)

ReleaseInventoryResponse(success, message) ==
    [success |-> success, message |-> message]

\* Variant: reserved_quantity is left as it was.
ReleaseUpdate_KeepsReserved(data, quantity) ==
    SetField([data EXCEPT !.available_quantity = @ + quantity],
             "last_updated", Now)

\* Variant: reserved_quantity is not taken below zero.
ReleaseUpdate_FloorsReserved(data, quantity) ==
    SetField([data EXCEPT !.available_quantity = @ + quantity,
                          !.reserved_quantity =
                              IF @ - quantity < 0 THEN 0 ELSE @ - quantity],
             "last_updated", Now)

\* inventory_data["available_quantity"] += q; ["reserved_quantity"] -= q
ReleaseUpdate(data, quantity) ==
    SetField([data EXCEPT !.available_quantity = @ + quantity,
                          !.reserved_quantity = @ - quantity],
             "last_updated", Now)

\* Variant: the delete is made whether or not an id was given.
HasReservationId_Always(req) == TRUE

\* `if request.reservation_id`
HasReservationId(req) == req.reservation_id # ""

ReleasedEvent(req, data) ==
    [product_id |-> req.product_id, quantity |-> req.quantity,
     order_id |-> req.order_id,
     available_quantity |-> data.available_quantity]

ReleaseInventoryGet(w) ==
    /\ pc[w] = "get"
    /\ request[w].op = "ReleaseInventory"
    /\ LET key == InventoryKey(request[w].product_id)
           data == GetState(store, key)
       IN /\ trace' = [trace EXCEPT ![w] =
                 Append(@, Access("get_state", key, data, key \in DOMAIN store))]
          /\ IF NoData(data)
             THEN /\ Return(w, ReleaseInventoryResponse(FALSE, "Product not found"))
                  /\ UNCHANGED inventory_data
             ELSE /\ inventory_data' = [inventory_data EXCEPT ![w] =
                                           ReleaseUpdate(data, request[w].quantity)]
                  /\ pc' = [pc EXCEPT ![w] = "save_inventory"]
                  /\ UNCHANGED response
    /\ UNCHANGED << store, request, reservation_id, status_code, issued, calls,
                    callno, runs, matched >>
    /\ UNCHANGED outside

ReleaseInventorySave(w) ==
    /\ pc[w] = "save_inventory"
    /\ request[w].op = "ReleaseInventory"
    /\ LET key == InventoryKey(request[w].product_id)
       IN /\ store' = SaveState(store, key, inventory_data[w])
          /\ trace' = [trace EXCEPT ![w] =
                 Append(@, Access("save_state", key, inventory_data[w],
                                  key \in DOMAIN store))]
    /\ pc' = [pc EXCEPT ![w] =
           IF HasReservationId(request[w]) THEN "delete_reservation" ELSE "publish"]
    /\ matched' = [matched EXCEPT ![w] =
           {r \in runs[request[w].product_id] : r.sum = request[w].quantity}]
    /\ runs' = [runs EXCEPT ![request[w].product_id] = {}]
    /\ UNCHANGED << request, inventory_data, reservation_id, response,
                    status_code, issued, calls, callno >>
    /\ UNCHANGED outside

\* Variant: the record is deleted only when it is the request's reservation.
ReleaseInventoryDeleteReservation_ChecksRecord(w) ==
    /\ pc[w] = "delete_reservation"
    /\ request[w].op = "ReleaseInventory"
    /\ LET key == ReservationKey(request[w].reservation_id)
           same == /\ key \in DOMAIN store
                   /\ store[key].product_id = request[w].product_id
                   /\ store[key].quantity = request[w].quantity
       IN /\ store' = IF same THEN DeleteState(store, key) ELSE store
          /\ trace' = [trace EXCEPT ![w] =
                 Append(@, Access("delete_state", key, Nil, key \in DOMAIN store))]
    /\ pc' = [pc EXCEPT ![w] = "publish"]
    /\ UNCHANGED << request, inventory_data, reservation_id, response,
                    status_code, issued, calls, callno, runs, matched >>
    /\ UNCHANGED outside

\* Variant: the delete is made on the product's inventory key.
ReleaseInventoryDeleteReservation_DeletesInventory(w) ==
    /\ pc[w] = "delete_reservation"
    /\ request[w].op = "ReleaseInventory"
    /\ LET key == InventoryKey(request[w].product_id)
       IN /\ store' = DeleteState(store, key)
          /\ trace' = [trace EXCEPT ![w] =
                 Append(@, Access("delete_state", key, Nil, key \in DOMAIN store))]
    /\ pc' = [pc EXCEPT ![w] = "publish"]
    /\ UNCHANGED << request, inventory_data, reservation_id, response,
                    status_code, issued, calls, callno, runs, matched >>
    /\ UNCHANGED outside

ReleaseInventoryDeleteReservation(w) ==
    /\ pc[w] = "delete_reservation"
    /\ request[w].op = "ReleaseInventory"
    /\ LET key == ReservationKey(request[w].reservation_id)
       IN /\ store' = DeleteState(store, key)
          /\ trace' = [trace EXCEPT ![w] =
                 Append(@, Access("delete_state", key, Nil, key \in DOMAIN store))]
    /\ pc' = [pc EXCEPT ![w] = "publish"]
    /\ UNCHANGED << request, inventory_data, reservation_id, response,
                    status_code, issued, calls, callno, runs, matched >>
    /\ UNCHANGED outside

ReleaseInventoryPublish(w) ==
    /\ pc[w] = "publish"
    /\ request[w].op = "ReleaseInventory"
    /\ trace' = [trace EXCEPT ![w] =
           PublishInventoryEvent(@, "inventory.released",
               ReleasedEvent(request[w], inventory_data[w]))]
    /\ Return(w, ReleaseInventoryResponse(TRUE, "Inventory released successfully"))
    /\ UNCHANGED << store, request, inventory_data, reservation_id,
                    status_code, issued, calls, callno, runs, matched >>
    /\ UNCHANGED outside

(* ------------------------- UpdateInventory ---------------------------- *)

\* inventory_pb2.ProductInventory built from inventory_data.
ProductInventory(data) ==
    [product_id |-> data.product_id, product_name |-> data.product_name,
     available_quantity |-> data.available_quantity,
     reserved_quantity |-> data.reserved_quantity,
     total_quantity |-> data.total_quantity, unit_price |-> data.unit_price,
     last_updated |-> IF "last_updated" \in DOMAIN data
                      THEN data.last_updated ELSE ""]

InventoryResponse(success, inventory, message) ==
    [success |-> success, inventory |-> inventory, message |-> message]

\* Variant: no floor.
FloorAtZero_None(x) == x

\* `if x < 0: x = 0`
FloorAtZero(x) == IF x < 0 THEN 0 ELSE x

\* Variant: total_quantity is left as it was.
UpdateQuantities_AvailableOnly(data, change) ==
    SetField([data EXCEPT !.available_quantity = FloorAtZero(@ + change)],
             "last_updated", Now)

\* Variant: only total_quantity is floored.
UpdateQuantities_FloorsTotalOnly(data, change) ==
    SetField([data EXCEPT
                 !.total_quantity = FloorAtZero(@ + change),
                 !.available_quantity = @ + change],
             "last_updated", Now)

\* total_quantity += change; available_quantity += change; both floored.
UpdateQuantities(data, change) ==
    SetField([data EXCEPT
                 !.total_quantity = FloorAtZero(@ + change),
                 !.available_quantity = FloorAtZero(@ + change)],
             "last_updated", Now)

UpdatedEvent(req, data) ==
    [product_id |-> req.product_id, quantity_change |-> req.quantity_change,
     reason |-> req.reason, new_quantity |-> data.available_quantity]

UpdateInventoryGet(w) ==
    /\ pc[w] = "get"
    /\ request[w].op = "UpdateInventory"
    /\ LET key == InventoryKey(request[w].product_id)
           data == GetState(store, key)
       IN /\ trace' = [trace EXCEPT ![w] =
                 Append(@, Access("get_state", key, data, key \in DOMAIN store))]
          /\ IF NoData(data)
             THEN /\ Return(w, InventoryResponse(FALSE, Nil, "Product not found"))
                  /\ UNCHANGED inventory_data
             ELSE /\ inventory_data' = [inventory_data EXCEPT ![w] =
                          UpdateQuantities(data, request[w].quantity_change)]
                  /\ pc' = [pc EXCEPT ![w] = "save_inventory"]
                  /\ UNCHANGED response
    /\ UNCHANGED << store, request, reservation_id, status_code, issued, calls,
                    callno, runs, matched >>
    /\ UNCHANGED outside

\* Variant: the record is saved under the key of the first sample product.
UpdateInventorySave_FirstProduct(w) ==
    /\ pc[w] = "save_inventory"
    /\ request[w].op = "UpdateInventory"
    /\ LET key == InventoryKey(sample_products[1].product_id)
       IN /\ store' = SaveState(store, key, inventory_data[w])
          /\ trace' = [trace EXCEPT ![w] =
                 Append(@, Access("save_state", key, inventory_data[w],
                                  key \in DOMAIN store))]
    /\ pc' = [pc EXCEPT ![w] = "publish"]
    /\ runs' = [runs EXCEPT ![request[w].product_id] = {}]
    /\ UNCHANGED << request, inventory_data, reservation_id, response,
                    status_code, issued, calls, callno, matched >>
    /\ UNCHANGED outside

UpdateInventorySave(w) ==
    /\ pc[w] = "save_inventory"
    /\ request[w].op = "UpdateInventory"
    /\ LET key == InventoryKey(request[w].product_id)
       IN /\ store' = SaveState(store, key, inventory_data[w])
          /\ trace' = [trace EXCEPT ![w] =
                 Append(@, Access("save_state", key, inventory_data[w],
                                  key \in DOMAIN store))]
    /\ pc' = [pc EXCEPT ![w] = "publish"]
    /\ runs' = [runs EXCEPT ![request[w].product_id] = {}]
    /\ UNCHANGED << request, inventory_data, reservation_id, response,
                    status_code, issued, calls, callno, matched >>
    /\ UNCHANGED outside

UpdateInventoryPublish(w) ==
    /\ pc[w] = "publish"
    /\ request[w].op = "UpdateInventory"
    /\ trace' = [trace EXCEPT ![w] =
           PublishInventoryEvent(@, "inventory.updated",
               UpdatedEvent(request[w], inventory_data[w]))]
    /\ Return(w, InventoryResponse(TRUE, ProductInventory(inventory_data[w]),
                                   "Inventory updated successfully"))
    /\ UNCHANGED << store, request, inventory_data, reservation_id,
                    status_code, issued, calls, callno, runs, matched >>
    /\ UNCHANGED outside

(* ------------------- CheckAvailability, GetInventory ------------------ *)

CheckAvailabilityResponse(available, available_quantity, message) ==
    [available |-> available, available_quantity |-> available_quantity,
     message |-> message]

\* Variant: strictly more than the quantity is required.
IsAvailable_Strict(data, quantity) == data.available_quantity > quantity

\* Variant: the comparison is the wrong way round.
IsAvailable_Reversed(data, quantity) == data.available_quantity <= quantity

\* is_available = available_qty >= request.quantity
IsAvailable(data, quantity) == data.available_quantity >= quantity

CheckAvailability(w) ==
    /\ pc[w] = "get"
    /\ request[w].op = "CheckAvailability"
    /\ LET key == InventoryKey(request[w].product_id)
           data == GetState(store, key)
       IN /\ trace' = [trace EXCEPT ![w] =
                 Append(@, Access("get_state", key, data, key \in DOMAIN store))]
          /\ IF NoData(data)
             THEN /\ Return(w, CheckAvailabilityResponse(FALSE, 0, "Product not found"))
                  /\ UNCHANGED inventory_data
             ELSE /\ Return(w, CheckAvailabilityResponse(
                          IsAvailable(data, request[w].quantity),
                          data.available_quantity,
                          IF IsAvailable(data, request[w].quantity)
                          THEN "Available" ELSE "Insufficient inventory"))
                  /\ inventory_data' = [inventory_data EXCEPT ![w] = data]
    /\ UNCHANGED << store, request, reservation_id, status_code, issued, calls,
                    callno, runs, matched >>
    /\ UNCHANGED outside

GetInventory(w) ==
    /\ pc[w] = "get"
    /\ request[w].op = "GetInventory"
    /\ LET key == InventoryKey(request[w].product_id)
           data == GetState(store, key)
       IN /\ trace' = [trace EXCEPT ![w] =
                 Append(@, Access("get_state", key, data, key \in DOMAIN store))]
          /\ IF NoData(data)
             THEN /\ Return(w, InventoryResponse(FALSE, Nil, "Product not found"))
                  /\ UNCHANGED inventory_data
             ELSE /\ Return(w, InventoryResponse(TRUE, ProductInventory(data),
                                                 "Inventory retrieved successfully"))
                  /\ inventory_data' = [inventory_data EXCEPT ![w] = data]
    /\ UNCHANGED << store, request, reservation_id, status_code, issued, calls,
                    callno, runs, matched >>
    /\ UNCHANGED outside

(* ------------------- failures of the store and the bus ---------------- *)

\* The trace entry of an access that raised instead of returning.
Raised(call) == call \o " raised"

\* The accesses of a kind a call attempted, failed ones included.
Attempts(tr, call) ==
    {i \in DOMAIN tr : tr[i].call \in {call, Raised(call)}}

\* The store accesses of a call that raised.
RaisedAccesses(tr) ==
    {i \in DOMAIN tr : tr[i].call \in {Raised("get_state"),
                                       Raised("save_state"),
                                       Raised("delete_state")}}

\* Variant: the except clause answers with the not-found message.
InternalError_NotFoundMessage(req) ==
    CASE req.op = "CheckAvailability" ->
             CheckAvailabilityResponse(FALSE, 0, "Product not found")
      [] req.op = "ReserveInventory" ->
             ReserveInventoryResponse(FALSE, "", "Product not found")
      [] req.op = "ReleaseInventory" ->
             ReleaseInventoryResponse(FALSE, "Product not found")
      [] OTHER -> InventoryResponse(FALSE, Nil, "Product not found")

\* The response each handler's `except Exception` clause returns.
InternalError(req) ==
    CASE req.op = "CheckAvailability" ->
             CheckAvailabilityResponse(FALSE, 0, "Internal error")
      [] req.op = "ReserveInventory" ->
             ReserveInventoryResponse(FALSE, "", "Internal error")
      [] req.op = "ReleaseInventory" ->
             ReleaseInventoryResponse(FALSE, "Internal error")
      [] OTHER -> InventoryResponse(FALSE, Nil, "Internal error")

\* An access of the state store raises: nothing is read or written, and the
\* exception reaches the handler's except clause.
Raise(w, access) ==
    /\ trace' = [trace EXCEPT ![w] =
           Append(@, [access EXCEPT !.call = Raised(@)])]
    /\ Except(w, InternalError(request[w]))
    /\ UNCHANGED << store, request, inventory_data, calls, callno, runs,
                    matched >>
    /\ UNCHANGED outside

\* dapr_client.get_state raises (the first access of every handler).
GetStateRaises(w) ==
    /\ pc[w] = "get"
    /\ LET key == InventoryKey(request[w].product_id)
       IN Raise(w, Access("get_state", key, Nil, key \in DOMAIN store))
    /\ UNCHANGED << reservation_id, issued >>

\* Variant: a failed save of the reservation record is passed over and the
\* handler goes on to publish.
SaveStateRaises_ReservationIgnored(w) ==
    \/ /\ pc[w] = "save_inventory"
       /\ LET key == InventoryKey(request[w].product_id)
          IN Raise(w, Access("save_state", key, inventory_data[w],
                             key \in DOMAIN store))
       /\ UNCHANGED << reservation_id, issued >>
    \/ /\ pc[w] = "save_reservation"
       /\ LET rid == uuid4(issued)
              key == ReservationKey(rid)
          IN /\ reservation_id' = [reservation_id EXCEPT ![w] = rid]
             /\ issued' = issued \cup {rid}
             /\ trace' = [trace EXCEPT ![w] =
                    Append(@, Access(Raised("save_state"), key,
                                     reservation_data(rid, request[w]),
                                     key \in DOMAIN store))]
       /\ pc' = [pc EXCEPT ![w] = "publish"]
       /\ UNCHANGED << store, request, inventory_data, response, status_code,
                       calls, callno, runs, matched, outside >>

\* dapr_client.save_state raises: on the inventory record in Reserve,
\* Release and Update, or on the reservation record in Reserve, whose id
\* has been drawn by then.
SaveStateRaises(w) ==
    \/ /\ pc[w] = "save_inventory"
       /\ LET key == InventoryKey(request[w].product_id)
          IN Raise(w, Access("save_state", key, inventory_data[w],
                             key \in DOMAIN store))
       /\ UNCHANGED << reservation_id, issued >>
    \/ /\ pc[w] = "save_reservation"
       /\ LET rid == uuid4(issued)
              key == ReservationKey(rid)
          IN /\ reservation_id' = [reservation_id EXCEPT ![w] = rid]
             /\ issued' = issued \cup {rid}
             /\ Raise(w, Access("save_state", key,
                                reservation_data(rid, request[w]),
                                key \in DOMAIN store))

\* dapr_client.delete_state raises (ReleaseInventory with a reservation_id).
DeleteStateRaises(w) ==
    /\ pc[w] = "delete_reservation"
    /\ LET key == ReservationKey(request[w].reservation_id)
       IN Raise(w, Access("delete_state", key, Nil, key \in DOMAIN store))
    /\ UNCHANGED << reservation_id, issued >>

\* The topic a handler publishes on, and the data of its event.
Topic(req) ==
    CASE req.op = "ReserveInventory" -> "inventory.reserved"
      [] req.op = "ReleaseInventory" -> "inventory.released"
      [] req.op = "UpdateInventory" -> "inventory.updated"

EventData(w) ==
    CASE request[w].op = "ReserveInventory" ->
             ReservedEvent(request[w], reservation_id[w], inventory_data[w])
      [] request[w].op = "ReleaseInventory" ->
             ReleasedEvent(request[w], inventory_data[w])
      [] request[w].op = "UpdateInventory" ->
             UpdatedEvent(request[w], inventory_data[w])

\* The response a handler returns after _publish_inventory_event.
Success(w) ==
    CASE request[w].op = "ReserveInventory" ->
             ReserveInventoryResponse(TRUE, reservation_id[w],
                                      "Inventory reserved successfully")
      [] request[w].op = "ReleaseInventory" ->
             ReleaseInventoryResponse(TRUE, "Inventory released successfully")
      [] request[w].op = "UpdateInventory" ->
             InventoryResponse(TRUE, ProductInventory(inventory_data[w]),
                               "Inventory updated successfully")

\* Variant: the failure reaches the handler's except clause.
PublishFailed_Propagates(w) == Except(w, InternalError(request[w]))

\* _publish_inventory_event's own except clause: the failure is logged and
\* the handler goes on to its return statement.
PublishFailed(w) ==
    /\ Return(w, Success(w))
    /\ UNCHANGED status_code

\* dapr_client.publish_event raises.
PublishEventRaises(w) ==
    /\ pc[w] = "publish"
    /\ trace' = [trace EXCEPT ![w] =
           Append(@, Access(Raised("publish_event"), Topic(request[w]),
                            Envelope(Topic(request[w]), EventData(w)), FALSE))]
    /\ PublishFailed(w)
    /\ runs' = IF request[w].op = "ReserveInventory"
               THEN [runs EXCEPT ![request[w].product_id] =
                        ExtendRuns(@, trace[w][1].value, request[w].quantity)]
               ELSE runs
    /\ UNCHANGED << store, request, inventory_data, reservation_id, issued,
                    calls, callno, matched >>
    /\ UNCHANGED outside

(* -------------------------- event handlers ---------------------------- *)

\* event.data of the events delivered: an order object, an object with no
\* order_id, JSON that is no object, and text that is no JSON.
OrderPayload == "{\"order_id\": \"order-1\"}"
EventPayloads == {OrderPayload, "{}", "[]", "not json"}

\* json.loads: the Python value of the text, or the exception it raises.
json_loads(text) ==
    CASE text = OrderPayload ->
             [type |-> "dict", value |-> [order_id |-> "order-1"]]
      [] text = "{}" -> [type |-> "dict", value |-> [none |-> TRUE]]
      [] text = "[]" -> [type |-> "list", value |-> << >>]
      [] OTHER -> [type |-> "raise", value |-> "JSONDecodeError"]

\* order_data.get('order_id'), evaluated for the log line: only a dict has
\* a get; on any other value the attribute access raises.
GetRaises(order_data) == order_data.type # "dict"

\* Variant: the handler has no failure reply.
HandlerReturn_AlwaysTrue(text) == [success |-> TRUE]

\* What both handlers return: {"success": True} at the end of the try
\* block, {"success": False} from `except Exception`.
HandlerReturn(text) ==
    LET order_data == json_loads(text)
    IN IF order_data.type = "raise" THEN [success |-> FALSE]
       ELSE IF GetRaises(order_data) THEN [success |-> FALSE]
       ELSE [success |-> TRUE]

\* An event handler has run on one delivered event.
Handled(topic, text) ==
    /\ Len(events) < MaxEvents
    /\ events' = Append(events, [topic |-> topic, data |-> text,
                                 returned |-> HandlerReturn(text)])
    /\ UNCHANGED << store, pc, request, inventory_data, reservation_id,
                    response, status_code, trace, issued, calls, callno,
                    runs, matched, order_status, sent >>

order_created_handler == \E text \in EventPayloads : Handled("order.created", text)

order_cancelled_handler == \E text \in EventPayloads : Handled("order.cancelled", text)

(* ---------------------------- order client --------------------------- *)

\* A Python str is the sequence of its characters.
UpperCase ==
    << "A", "B", "C", "D", "E", "F", "G", "H", "I", "J", "K", "L", "M",
       "N", "O", "P", "Q", "R", "S", "T", "U", "V", "W", "X", "Y",
       "Z" >>
LowerCase ==
    << "a", "b", "c", "d", "e", "f", "g", "h", "i", "j", "k", "l", "m",
       "n", "o", "p", "q", "r", "s", "t", "u", "v", "w", "x", "y",
       "z" >>

\* Variant: the string is looked up as it was given.
lower_AsGiven(s) == s

\* str.lower(): every upper-case letter is replaced by its lower-case one.
lower(s) ==
    [i \in DOMAIN s |->
        IF \E j \in DOMAIN UpperCase : UpperCase[j] = s[i]
        THEN LowerCase[CHOOSE j \in DOMAIN UpperCase : UpperCase[j] = s[i]]
        ELSE s[i]]

\* The keys of status_map and their values, in the order of the source.
StatusKeys ==
    << << "p", "e", "n", "d", "i", "n", "g" >>,
       << "c", "o", "n", "f", "i", "r", "m", "e", "d" >>,
       << "p", "r", "o", "c", "e", "s", "s", "i", "n", "g" >>,
       << "s", "h", "i", "p", "p", "e", "d" >>,
       << "d", "e", "l", "i", "v", "e", "r", "e", "d" >>,
       << "c", "a", "n", "c", "e", "l", "l", "e", "d" >>,
       << "f", "a", "i", "l", "e", "d" >> >>
StatusValues ==
    << "ORDER_STATUS_PENDING", "ORDER_STATUS_CONFIRMED",
       "ORDER_STATUS_PROCESSING", "ORDER_STATUS_SHIPPED",
       "ORDER_STATUS_DELIVERED", "ORDER_STATUS_CANCELLED",
       "ORDER_STATUS_FAILED" >>

\* status_map.get(key, ORDER_STATUS_UNSPECIFIED)
status_map_get(key) ==
    IF \E j \in DOMAIN StatusKeys : StatusKeys[j] = key
    THEN StatusValues[CHOOSE j \in DOMAIN StatusKeys : StatusKeys[j] = key]
    ELSE "ORDER_STATUS_UNSPECIFIED"

\* status_enum = status_map.get(status.lower(), ORDER_STATUS_UNSPECIFIED)
status_enum(status) == status_map_get(lower(status))

\* The values of the OrderStatus enum.
OrderStatuses ==
    {StatusValues[j] : j \in DOMAIN StatusValues} \cup {"ORDER_STATUS_UNSPECIFIED"}

\* The status strings given to update_order.
StatusStrings ==
    { << "P", "E", "N", "D", "I", "N", "G" >>,
      << "C", "o", "n", "f", "i", "r", "m", "e", "d" >>,
      << "p", "r", "o", "c", "e", "s", "s", "i", "n", "g" >>,
      << "s", "H", "i", "P", "p", "E", "d" >>,
      << "d", "e", "l", "i", "v", "e", "r", "e", "d" >>,
      << "C", "A", "N", "C", "E", "L", "L", "E", "D" >>,
      << "f", "a", "i", "l", "e", "d" >>,
      << >>,
      << "s", "h", "i", "p", "p", "e", "d", " " >>,
      << "r", "e", "f", "u", "n", "d", "e", "d" >> }

\* What stub.UpdateOrder does with the request is the order service's
\* affair: it answers success, answers failure, or the call raises RpcError.
StubOutcomes == {"success", "failure", "RpcError"}

\* The dict update_order returns.
UpdateOrderResult(outcome, order_id, status) ==
    CASE outcome = "success" ->
             [success |-> TRUE, order_id |-> order_id, status |-> status,
              message |-> "response.message"]
      [] outcome = "failure" ->
             [success |-> FALSE, message |-> "response.message"]
      [] OTHER -> [success |-> FALSE, message |-> "gRPC error"]

\* OrderClient.update_order(order_id, status)
update_order(order_id, status) ==
    /\ Len(sent) < MaxUpdates
    /\ \E outcome \in StubOutcomes :
          sent' = Append(sent,
                     [order_id |-> order_id, status |-> status_enum(status),
                      argument |-> status,
                      returned |-> UpdateOrderResult(outcome, order_id, status)])
    /\ UNCHANGED << store, pc, request, inventory_data, reservation_id,
                    response, status_code, trace, issued, calls, callno,
                    runs, matched, events, order_status >>

(* --------------------------- the server ------------------------------- *)

\* The response has been sent: the worker thread goes back to the pool.
Complete(w) ==
    /\ pc[w] = "done"
    /\ pc' = [pc EXCEPT ![w] = "idle"]
    /\ request' = [request EXCEPT ![w] = Nil]
    /\ inventory_data' = [inventory_data EXCEPT ![w] = Nil]
    /\ reservation_id' = [reservation_id EXCEPT ![w] = ""]
    /\ response' = [response EXCEPT ![w] = Nil]
    /\ status_code' = [status_code EXCEPT ![w] = "OK"]
    /\ trace' = [trace EXCEPT ![w] = << >>]
    /\ callno' = [callno EXCEPT ![w] = 0]
    /\ matched' = [matched EXCEPT ![w] = {}]
    /\ UNCHANGED << store, issued, calls, runs >>
    /\ UNCHANGED outside

\* The requests clients send.
CallCheckAvailability(w, limit, products) ==
    \E p \in products, q \in Quantities :
        Enter(w, Request("CheckAvailability", p, q, "", "", "", 0, ""), limit)

CallReserveInventory(w, limit, products) ==
    \E p \in products, q \in Quantities, o \in OrderIds, c \in CustomerIds :
        Enter(w, Request("ReserveInventory", p, q, o, c, "", 0, ""), limit)

CallReleaseInventory(w, limit, products) ==
    \E p \in products, q \in Quantities, o \in OrderIds,
       rid \in {""} \cup issued \cup {UnknownReservationId} :
        Enter(w, Request("ReleaseInventory", p, q, o, "", rid, 0, ""), limit)

CallUpdateInventory(w, limit, products) ==
    \E p \in products, ch \in QuantityChanges, r \in Reasons :
        Enter(w, Request("UpdateInventory", p, 0, "", "", "", ch, r), limit)

CallGetInventory(w, limit, products) ==
    \E p \in products :
        Enter(w, Request("GetInventory", p, 0, "", "", "", 0, ""), limit)

\* No handler of another worker is between its first and its last access.
Serialized(w) == \A v \in Workers \ {w} : pc[v] \in {"idle", "done"}

\* InventoryService.__init__ on an empty store, before serve() takes calls.
Init ==
    /\ store = InitializeSampleData(EmptyStore, 1)
    /\ pc = [w \in Workers |-> "idle"]
    /\ request = [w \in Workers |-> Nil]
    /\ inventory_data = [w \in Workers |-> Nil]
    /\ reservation_id = [w \in Workers |-> ""]
    /\ response = [w \in Workers |-> Nil]
    /\ status_code = [w \in Workers |-> "OK"]
    /\ trace = [w \in Workers |-> << >>]
    /\ issued = {}
    /\ calls = 0
    /\ callno = [w \in Workers |-> 0]
    /\ runs = [p \in ProductIds |-> {}]
    /\ matched = [w \in Workers |-> {}]
    /\ events = << >>
    /\ order_status = "ORDER_STATUS_UNSPECIFIED"
    /\ sent = << >>

Handle(w) ==
    \/ CheckAvailability(w)
    \/ ReserveInventoryGet(w)
    \/ ReserveInventorySave(w)
    \/ ReserveInventorySaveReservation(w)
    \/ ReserveInventoryPublish(w)
    \/ ReleaseInventoryGet(w)
    \/ ReleaseInventorySave(w)
    \/ ReleaseInventoryDeleteReservation(w)
    \/ ReleaseInventoryPublish(w)
    \/ UpdateInventoryGet(w)
    \/ UpdateInventorySave(w)
    \/ UpdateInventoryPublish(w)
    \/ GetInventory(w)
    \/ Complete(w)

\* Handlers run on the pool's threads with no coordination between them.
Next ==
    \E w \in Workers :
        \/ CallCheckAvailability(w, MaxCalls, OneProduct)
        \/ CallReserveInventory(w, MaxCalls, OneProduct)
        \/ CallReleaseInventory(w, MaxCalls, OneProduct)
        \/ CallUpdateInventory(w, MaxCalls, OneProduct)
        \/ CallGetInventory(w, MaxCalls, OneProduct)
        \/ Handle(w)

Spec == Init /\ [][Next]_vars

\* The same handlers when a call is only taken once no other is running.
NextSeq ==
    \E w \in Workers :
        \/ Serialized(w) /\ CallCheckAvailability(w, MaxSeqCalls, OneProduct)
        \/ Serialized(w) /\ CallReserveInventory(w, MaxSeqCalls, OneProduct)
        \/ Serialized(w) /\ CallReleaseInventory(w, MaxSeqCalls, OneProduct)
        \/ Serialized(w) /\ CallUpdateInventory(w, MaxSeqCalls, OneProduct)
        \/ Serialized(w) /\ CallGetInventory(w, MaxSeqCalls, OneProduct)
        \/ Handle(w)

SpecSeq == Init /\ [][NextSeq]_vars

\* The quantity of the requests sent when accesses may raise: all the seed
\* stock of prod-001 (the requests of Update and Get carry none).
OneQuantity == {Seed001}

\* The handlers when any access of the store or the bus may raise.
NextFaults ==
    \E w \in Workers :
        \/ /\ CallCheckAvailability(w, MaxFaultCalls, OneProduct)
           /\ request'[w].quantity \in OneQuantity
        \/ /\ CallReserveInventory(w, MaxFaultCalls, OneProduct)
           /\ request'[w].quantity \in OneQuantity
        \/ /\ CallReleaseInventory(w, MaxFaultCalls, OneProduct)
           /\ request'[w].quantity \in OneQuantity
        \/ CallUpdateInventory(w, MaxFaultCalls, OneProduct)
        \/ CallGetInventory(w, MaxFaultCalls, OneProduct)
        \/ Handle(w)
        \/ GetStateRaises(w)
        \/ SaveStateRaises(w)
        \/ DeleteStateRaises(w)
        \/ PublishEventRaises(w)

SpecFaults == Init /\ [][NextFaults]_vars

\* Two seeded products, and the quantities of the requests sent to them.
TwoProducts == {"prod-001", "prod-002"}
TwoQuantities == {10, Seed001}

\* The handlers when requests address two products.
NextTwo ==
    \E w \in Workers :
        \/ /\ CallCheckAvailability(w, MaxTwoCalls, TwoProducts)
           /\ request'[w].quantity \in OneQuantity
        \/ /\ CallReserveInventory(w, MaxTwoCalls, TwoProducts)
           /\ request'[w].quantity \in TwoQuantities
        \/ /\ CallReleaseInventory(w, MaxTwoCalls, TwoProducts)
           /\ request'[w].quantity \in TwoQuantities
        \/ /\ CallUpdateInventory(w, MaxTwoCalls, TwoProducts)
           /\ request'[w].quantity_change < 0
        \/ CallGetInventory(w, MaxTwoCalls, TwoProducts)
        \/ Handle(w)

SpecTwo == Init /\ [][NextTwo]_vars

\* request.quantity is an integer the handler never validates: a client
\* may send zero or a negative value.
SignedQuantities == {-10, 0, 10}

CallReserveInventoryOf(w, limit, products, quantities) ==
    \E p \in products, q \in quantities, o \in OrderIds, c \in CustomerIds :
        Enter(w, Request("ReserveInventory", p, q, o, c, "", 0, ""), limit)

\* The handlers when Reserve requests carry any quantity.
NextSigned ==
    \E w \in Workers :
        \/ /\ CallCheckAvailability(w, MaxSignedCalls, OneProduct)
           /\ request'[w].quantity \in OneQuantity
        \/ CallReserveInventoryOf(w, MaxSignedCalls, OneProduct, SignedQuantities)
        \/ /\ CallReleaseInventory(w, MaxSignedCalls, OneProduct)
           /\ request'[w].quantity \in OneQuantity
        \/ CallUpdateInventory(w, MaxSignedCalls, OneProduct)
        \/ CallGetInventory(w, MaxSignedCalls, OneProduct)
        \/ Handle(w)

SpecSigned == Init /\ [][NextSigned]_vars

\* One of the two `if x < 0` tests of UpdateInventory is true.
FloorTriggered(data, change) ==
    \/ data.total_quantity + change < 0
    \/ data.available_quantity + change < 0

\* The Update of worker w does not floor the record it reads.
NoFloor(w) ==
    LET key == InventoryKey(request[w].product_id)
    IN key \in DOMAIN store =>
           ~FloorTriggered(store[key], request[w].quantity_change)

\* The handlers in the executions in which no UpdateInventory floors.
NextNoFloor ==
    \E w \in Workers :
        \/ CallCheckAvailability(w, MaxCalls, OneProduct)
        \/ CallReserveInventory(w, MaxCalls, OneProduct)
        \/ CallReleaseInventory(w, MaxCalls, OneProduct)
        \/ CallUpdateInventory(w, MaxCalls, OneProduct)
        \/ CallGetInventory(w, MaxCalls, OneProduct)
        \/ CheckAvailability(w)
        \/ ReserveInventoryGet(w)
        \/ ReserveInventorySave(w)
        \/ ReserveInventorySaveReservation(w)
        \/ ReserveInventoryPublish(w)
        \/ ReleaseInventoryGet(w)
        \/ ReleaseInventorySave(w)
        \/ ReleaseInventoryDeleteReservation(w)
        \/ ReleaseInventoryPublish(w)
        \/ UpdateInventoryGet(w) /\ NoFloor(w)
        \/ UpdateInventorySave(w)
        \/ UpdateInventoryPublish(w)
        \/ GetInventory(w)
        \/ Complete(w)

SpecNoFloor == Init /\ [][NextNoFloor]_vars

\* The Release request carries the id, the product_id and the quantity of a
\* reservation record that is stored.
Matches(req) ==
    LET key == ReservationKey(req.reservation_id)
    IN /\ key \in DOMAIN store
       /\ store[key].product_id = req.product_id
       /\ store[key].quantity = req.quantity

\* Serialized handlers serving only Reserves and Releases that match a
\* stored reservation.
NextMatched ==
    \E w \in Workers :
        \/ Serialized(w) /\ CallReserveInventory(w, MaxMatchedCalls, TwoProducts)
        \/ /\ Serialized(w)
           /\ CallReleaseInventory(w, MaxMatchedCalls, TwoProducts)
           /\ Matches(request'[w])
        \/ ReserveInventoryGet(w)
        \/ ReserveInventorySave(w)
        \/ ReserveInventorySaveReservation(w)
        \/ ReserveInventoryPublish(w)
        \/ ReleaseInventoryGet(w)
        \/ ReleaseInventorySave(w)
        \/ ReleaseInventoryDeleteReservation(w)
        \/ ReleaseInventoryPublish(w)
        \/ Complete(w)

SpecMatched == Init /\ [][NextMatched]_vars

\* The process is stopped and started again: running handlers are gone with
\* it, and InventoryService.__init__ runs on the store as it is.
Restart ==
    /\ store' = InitializeSampleData(store, 1)
    /\ pc' = [w \in Workers |-> "idle"]
    /\ request' = [w \in Workers |-> Nil]
    /\ inventory_data' = [w \in Workers |-> Nil]
    /\ reservation_id' = [w \in Workers |-> ""]
    /\ response' = [w \in Workers |-> Nil]
    /\ status_code' = [w \in Workers |-> "OK"]
    /\ trace' = [w \in Workers |-> << >>]
    /\ callno' = [w \in Workers |-> 0]
    /\ runs' = [p \in ProductIds |-> {}]
    /\ matched' = [w \in Workers |-> {}]
    /\ UNCHANGED << issued, calls >>
    /\ UNCHANGED outside

\* The handlers of a service that may be restarted at any moment.
NextRestart ==
    \/ \E w \in Workers :
          \/ /\ CallCheckAvailability(w, MaxRestartCalls, OneProduct)
             /\ request'[w].quantity \in OneQuantity
          \/ CallReserveInventory(w, MaxRestartCalls, OneProduct)
          \/ /\ CallReleaseInventory(w, MaxRestartCalls, OneProduct)
             /\ request'[w].quantity \in OneQuantity
          \/ CallUpdateInventory(w, MaxRestartCalls, OneProduct)
          \/ CallGetInventory(w, MaxRestartCalls, OneProduct)
          \/ Handle(w)
    \/ Restart

SpecRestart == Init /\ [][NextRestart]_vars

\* The event handlers running next to Reserve calls: the bus delivers any
\* event at any moment, any number of times.
NextEvents ==
    \/ \E w \in Workers :
          \/ /\ CallReserveInventory(w, MaxEventCalls, OneProduct)
             /\ request'[w].quantity \in OneQuantity
          \/ ReserveInventoryGet(w)
          \/ ReserveInventorySave(w)
          \/ ReserveInventorySaveReservation(w)
          \/ ReserveInventoryPublish(w)
          \/ Complete(w)
    \/ order_created_handler
    \/ order_cancelled_handler

SpecEvents == Init /\ [][NextEvents]_vars

\* The order client, started while the order has any status.
InitClient ==
    /\ store = InitializeSampleData(EmptyStore, 1)
    /\ pc = [w \in Workers |-> "idle"]
    /\ request = [w \in Workers |-> Nil]
    /\ inventory_data = [w \in Workers |-> Nil]
    /\ reservation_id = [w \in Workers |-> ""]
    /\ response = [w \in Workers |-> Nil]
    /\ status_code = [w \in Workers |-> "OK"]
    /\ trace = [w \in Workers |-> << >>]
    /\ issued = {}
    /\ calls = 0
    /\ callno = [w \in Workers |-> 0]
    /\ runs = [p \in ProductIds |-> {}]
    /\ matched = [w \in Workers |-> {}]
    /\ events = << >>
    /\ order_status \in OrderStatuses
    /\ sent = << >>

NextClient == \E o \in OrderIds, s \in StatusStrings : update_order(o, s)

SpecClient == InitClient /\ [][NextClient]_vars

(* ======================= properties of the service ==================== *)

Handling(w, op) == pc[w] # "idle" /\ request[w].op = op

Finished(w, op) == pc[w] = "done" /\ request[w].op = op

\* The step is one of worker w's handler.
StepBy(w) == pc'[w] # pc[w]

\* What the call's get_state returned (Nil when the key held nothing).
Read(w) == trace[w][1].value

\* The inventory record the call wrote back (its second access).
Written(w) == trace[w][2].value

\* The ledger record of the product the call addresses.
Ledger(w) == store[InventoryKey(request[w].product_id)]

\* No call was issued after worker w's.
Latest(w) == callno[w] = calls

(* ------------------------------- C1 ----------------------------------- *)

FullStockReserve(w) ==
    /\ Finished(w, "ReserveInventory")
    /\ ~NoData(Read(w))
    /\ request[w].quantity > 0
    /\ Read(w).available_quantity = request[w].quantity

\* Two overlapping Reserves on one product that read the same record, each
\* asking for all the stock in it, and both reported success.
BothSucceed(a, b) ==
    /\ a # b
    /\ FullStockReserve(a) /\ FullStockReserve(b)
    /\ request[a].product_id = request[b].product_id
    /\ Read(a) = Read(b)
    /\ callno[b] = callno[a] + 1
    /\ response[a].success /\ response[b].success

\* C2 as stated: once both calls have reported success the stored
\* available_quantity is below zero.
C2_OverdrawnBelowZero ==
    \A a, b \in Workers :
        BothSucceed(a, b) => Ledger(a).available_quantity < 0

\* C2 as amended: both calls can report success; each writes back its own
\* snapshot less its quantity, so the stored available_quantity is then zero
\* (never below zero) and reserved_quantity has grown by one call's quantity
\* only, while both reservation records, for twice the stock, are stored.
C2_BothSucceedStockAtZero ==
    \A a, b \in Workers :
        BothSucceed(a, b) =>
            /\ Written(a).available_quantity = 0
            /\ Written(b).available_quantity = 0
            /\ Ledger(a).available_quantity = 0
            /\ Ledger(a).reserved_quantity
                   = Read(a).reserved_quantity + request[a].quantity
            /\ response[a].reservation_id # response[b].reservation_id
            /\ \A w \in {a, b} :
                  LET k == ReservationKey(response[w].reservation_id)
                  IN k \in DOMAIN store /\ store[k].quantity = request[w].quantity

C2_Witness == \E a, b \in Workers : BothSucceed(a, b)

(* ------------------------------- C3 ----------------------------------- *)

\* Call b directly follows call a; a asked for all the stock it read (more
\* than zero) and b asks for the same quantity of the same product.
SerializedFullStockPair(a, b) ==
    /\ a # b
    /\ FullStockReserve(a)
    /\ Finished(b, "ReserveInventory")
    /\ request[b].product_id = request[a].product_id
    /\ request[b].quantity = request[a].quantity
    /\ callno[b] = callno[a] + 1

\* C3: with serialized handlers, of two Reserves that each ask for the full
\* available stock exactly one succeeds: the first; the second is answered
\* success=false, "Insufficient inventory".
C3_SerializedExactlyOneSucceeds ==
    \A a, b \in Workers :
        SerializedFullStockPair(a, b) =>
            /\ response[a].success
            /\ ~response[b].success
            /\ response[b].message = "Insufficient inventory"
            /\ response[b].reservation_id = ""

C3_Witness ==
    \E a, b \in Workers :
        SerializedFullStockPair(a, b) /\ response[a].success /\ ~response[b].success

(* ------------------------------- C4 ----------------------------------- *)

\* C4, the replies: a finished Reserve answers "Product not found" when it
\* read no record and "Insufficient inventory" when the available_quantity
\* it read is below the quantity, having made no access but the read;
\* otherwise it answers success with a reservation_id and has written back
\* available_quantity - q, reserved_quantity + q and the total_quantity read.
C4_Replies ==
    \A w \in Workers :
        Finished(w, "ReserveInventory") =>
            LET d == Read(w)
                q == request[w].quantity
            IN IF d = Nil
               THEN /\ response[w] = ReserveInventoryResponse(FALSE, "", "Product not found")
                    /\ Len(trace[w]) = 1
               ELSE IF d.available_quantity < q
               THEN /\ response[w] = ReserveInventoryResponse(FALSE, "", "Insufficient inventory")
                    /\ Len(trace[w]) = 1
               ELSE /\ response[w].success
                    /\ response[w].reservation_id # ""
                    /\ trace[w][2].call = "save_state"
                    /\ trace[w][2].key = InventoryKey(request[w].product_id)
                    /\ Written(w).available_quantity = d.available_quantity - q
                    /\ Written(w).reserved_quantity = d.reserved_quantity + q
                    /\ Written(w).total_quantity = d.total_quantity

\* C4, the store: the read step of a Reserve (the only step of a failing
\* one) changes nothing in the store; the write-back step replaces the
\* product's record by the record read with available_quantity - q and
\* reserved_quantity + q, and changes no other key.
C4_Writes ==
    \A w \in Workers :
        (StepBy(w) /\ Handling(w, "ReserveInventory")) =>
            LET key == InventoryKey(request[w].product_id)
                d == Read(w)
                q == request[w].quantity
            IN /\ pc[w] = "get" => store' = store
               /\ pc[w] = "save_inventory" =>
                     /\ DOMAIN store' = DOMAIN store
                     /\ \A k \in DOMAIN store \ {key} : store'[k] = store[k]
                     /\ store'[key].available_quantity = d.available_quantity - q
                     /\ store'[key].reserved_quantity = d.reserved_quantity + q
                     /\ store'[key].total_quantity = d.total_quantity

\* C4: ReserveInventory fails with "Product not found" or "Insufficient
\* inventory" leaving ledger and registry unchanged, and otherwise writes
\* back available - q, reserved + q, total unchanged and returns success
\* with a reservation_id.
C4_ReserveInventory == []C4_Replies /\ [][C4_Writes]_vars

\* A Reserve of each kind has finished: one on an unknown product, one
\* that asked for more than there was, one that succeeded.
C4_Witness ==
    \E w \in Workers :
        /\ Finished(w, "ReserveInventory")
        /\ response[w].success
        /\ Written(w).available_quantity = Seed001 - request[w].quantity
        /\ \E v \in Workers :
              /\ Finished(v, "ReserveInventory")
              /\ response[v].message = "Insufficient inventory"

(* ------------------------------- C5 ----------------------------------- *)

\* C5, the reply: a Reserve that read no record for its product_id is
\* finished, answered success=false "Product not found", and has made no
\* access besides the read: no save, no delete, no publish.
C5_Reply ==
    \A w \in Workers :
        (Handling(w, "ReserveInventory") /\ Len(trace[w]) >= 1 /\ ~trace[w][1].had) =>
            /\ pc[w] = "done"
            /\ response[w] = ReserveInventoryResponse(FALSE, "", "Product not found")
            /\ Len(trace[w]) = 1
            /\ Saves(trace[w]) = {} /\ Deletes(trace[w]) = {}
            /\ Publishes(trace[w]) = {}

\* C5, the store: the step of a Reserve whose product has no record ends
\* the call and leaves the store as it is (no ledger record, no reservation
\* record is created) and generates no reservation id.
C5_NoWrite ==
    \A w \in Workers :
        (StepBy(w) /\ Handling(w, "ReserveInventory") /\ pc[w] = "get"
            /\ InventoryKey(request[w].product_id) \notin DOMAIN store) =>
            /\ store' = store
            /\ issued' = issued
            /\ pc'[w] = "done"

\* C5: ReserveInventory on a product_id with no stored record returns
\* success=false "Product not found", publishes no event and writes nothing.
C5_ReserveUnknownProduct == []C5_Reply /\ [][C5_NoWrite]_vars

C5_Witness ==
    \E w \in Workers :
        /\ Finished(w, "ReserveInventory")
        /\ request[w].product_id = "prod-404"
        /\ response[w].message = "Product not found"
        /\ InventoryKey("prod-404") \notin DOMAIN store

(* ------------------------------- C6 ----------------------------------- *)

\* The saves of reservation records a call has made.
ReservationSaves(w) ==
    {i \in Saves(trace[w]) : IsReservationKey(trace[w][i].key)}

\* C6, the accesses: a successful Reserve has saved exactly one reservation
\* record, under the key of the id it returns, which the store did not
\* hold, with the request's product_id, quantity, order_id and customer_id;
\* a Release of an existing product that carries a reservation_id deletes
\* exactly that key and saves no reservation record.  From 50/0 a Reserve of 10 writes 40/10;
\* from 40/10 a Release of 10 writes 50/0.
C6_Accesses ==
    \A w \in Workers :
        /\ (Finished(w, "ReserveInventory") /\ response[w].success) =>
              /\ Cardinality(ReservationSaves(w)) = 1
              /\ Deletes(trace[w]) = {}
              /\ \A i \in ReservationSaves(w) :
                    /\ trace[w][i].key = ReservationKey(response[w].reservation_id)
                    /\ ~trace[w][i].had
                    /\ trace[w][i].value.reservation_id = response[w].reservation_id
                    /\ trace[w][i].value.product_id = request[w].product_id
                    /\ trace[w][i].value.quantity = request[w].quantity
                    /\ trace[w][i].value.order_id = request[w].order_id
                    /\ trace[w][i].value.customer_id = request[w].customer_id
              /\ (Read(w).available_quantity = 50 /\ Read(w).reserved_quantity = 0
                    /\ request[w].quantity = 10) =>
                    (Written(w).available_quantity = 40 /\ Written(w).reserved_quantity = 10)
        /\ (Handling(w, "ReleaseInventory") /\ request[w].reservation_id # ""
              /\ pc[w] \in {"publish", "done"} /\ trace[w][1].had) =>
              /\ ReservationSaves(w) = {}
              /\ Cardinality(Deletes(trace[w])) = 1
              /\ \A i \in Deletes(trace[w]) :
                    trace[w][i].key = ReservationKey(request[w].reservation_id)
              /\ (Read(w).available_quantity = 40 /\ Read(w).reserved_quantity = 10
                    /\ request[w].quantity = 10) =>
                    (Written(w).available_quantity = 50 /\ Written(w).reserved_quantity = 0)
              /\ pc[w] = "done" => response[w].success

\* C6, the store: the reservation save of a Reserve adds one key, the key
\* of its fresh reservation_id, which no stored record has, and changes
\* nothing else; the delete of a Release removes the key of the
\* reservation_id it carries and nothing else.
C6_Registry ==
    \A w \in Workers :
        /\ (StepBy(w) /\ Handling(w, "ReserveInventory") /\ pc[w] = "save_reservation") =>
              LET k == ReservationKey(reservation_id'[w])
              IN /\ k \notin DOMAIN store
                 /\ DOMAIN store' = DOMAIN store \cup {k}
                 /\ \A j \in DOMAIN store : store'[j] = store[j]
        /\ (StepBy(w) /\ Handling(w, "ReleaseInventory") /\ pc[w] = "delete_reservation") =>
              LET k == ReservationKey(request[w].reservation_id)
              IN /\ DOMAIN store' = DOMAIN store \ {k}
                 /\ \A j \in DOMAIN store' : store'[j] = store[j]

\* C6: a successful Reserve creates exactly one reservation record under a
\* fresh id, carrying the request's fields, and returns the id; a later
\* Release carrying the id removes exactly that record.
C6_ReservationRecord == []C6_Accesses /\ [][C6_Registry]_vars

\* The example: from the seed 50/0, Reserve 10 (40/10, one record), then
\* Release 10 with the returned id: 50/0 and no reservation record.
C6_Witness ==
    \E a, b \in Workers :
        /\ Finished(a, "ReserveInventory") /\ response[a].success
        /\ request[a].product_id = "prod-001" /\ request[a].quantity = 10
        /\ Read(a).available_quantity = Seed001 /\ Read(a).reserved_quantity = 0
        /\ Written(a).available_quantity = 40 /\ Written(a).reserved_quantity = 10
        /\ Finished(b, "ReleaseInventory") /\ response[b].success
        /\ callno[b] = callno[a] + 1
        /\ request[b].product_id = "prod-001" /\ request[b].quantity = 10
        /\ request[b].reservation_id = response[a].reservation_id
        /\ Read(b).available_quantity = 40 /\ Read(b).reserved_quantity = 10
        /\ \E i \in Deletes(trace[b]) : trace[b][i].had
        /\ Ledger(b).available_quantity = Seed001 /\ Ledger(b).reserved_quantity = 0
        /\ \A k \in DOMAIN store : ~IsReservationKey(k)

(* ------------------------------- C7 ----------------------------------- *)

\* C7: a finished CheckAvailability answers available=true exactly when it
\* read a record whose available_quantity is at least the quantity asked
\* (equal counts as available) and reports the available_quantity it read;
\* when it read no record it answers available=false, available_quantity 0,
\* "Product not found".
C7_CheckAvailability ==
    \A w \in Workers :
        Finished(w, "CheckAvailability") =>
            LET d == Read(w)
            IN /\ trace[w][1].key = InventoryKey(request[w].product_id)
               /\ IF ~trace[w][1].had
                  THEN response[w] = CheckAvailabilityResponse(FALSE, 0, "Product not found")
                  ELSE /\ response[w].available
                            <=> d.available_quantity >= request[w].quantity
                       /\ response[w].available_quantity = d.available_quantity

\* The boundary: the quantity asked equals the available_quantity.
C7_Witness ==
    \E w \in Workers :
        /\ Finished(w, "CheckAvailability")
        /\ trace[w][1].had
        /\ Read(w).available_quantity = request[w].quantity
        /\ response[w].available

(* ------------------------------- C8 ----------------------------------- *)

ReadOnly(w) == Handling(w, "CheckAvailability") \/ Handling(w, "GetInventory")

\* C8, the reply and the accesses: a CheckAvailability that asked for more
\* than the available_quantity it read answers available=false; a
\* CheckAvailability or GetInventory call makes no access but get_state.
C8_Reply ==
    \A w \in Workers :
        /\ (Finished(w, "CheckAvailability") /\ trace[w][1].had
              /\ request[w].quantity > Read(w).available_quantity) =>
              ~response[w].available
        /\ ReadOnly(w) =>
              \A i \in DOMAIN trace[w] : trace[w][i].call = "get_state"

\* C8, the store: a step of CheckAvailability or GetInventory leaves the
\* store as it is.
C8_NoMutation ==
    \A w \in Workers :
        (StepBy(w) /\ ReadOnly(w) /\ pc[w] = "get") =>
            /\ store' = store
            /\ issued' = issued
            /\ pc'[w] = "done"

\* C8: CheckAvailability with a quantity above available_quantity returns
\* available=false; CheckAvailability and GetInventory write nothing,
\* delete nothing and publish nothing.
C8_ChecksDoNotMutate == []C8_Reply /\ [][C8_NoMutation]_vars

C8_Witness ==
    \E w \in Workers :
        /\ Finished(w, "CheckAvailability")
        /\ trace[w][1].had
        /\ request[w].quantity > Read(w).available_quantity
        /\ ~response[w].available
        /\ Ledger(w) = Read(w)

(* ------------------------------- C9 ----------------------------------- *)

\* The update takes more than the available_quantity it read.
ExceedsAvailable(w) ==
    /\ request[w].quantity_change < 0
    /\ 0 - request[w].quantity_change > Read(w).available_quantity

\* C9: an UpdateInventory with a negative quantity_change larger than the
\* available_quantity it read writes back available_quantity 0,
\* total_quantity max(0, total_quantity + quantity_change) and the
\* reserved_quantity it read; when the record read had
\* total = available + reserved with reserved > 0, the record written no
\* longer has it.
C9_UpdateFloors ==
    \A w \in Workers :
        (Handling(w, "UpdateInventory") /\ Len(trace[w]) >= 2 /\ ExceedsAvailable(w)) =>
            LET d == Read(w)
                n == Written(w)
                t == d.total_quantity + request[w].quantity_change
            IN /\ trace[w][2].call = "save_state"
               /\ trace[w][2].key = InventoryKey(request[w].product_id)
               /\ n.available_quantity = 0
               /\ n.total_quantity = IF t > 0 THEN t ELSE 0
               /\ n.reserved_quantity = d.reserved_quantity
               /\ (d.reserved_quantity > 0
                     /\ d.total_quantity = d.available_quantity + d.reserved_quantity) =>
                     n.total_quantity # n.available_quantity + n.reserved_quantity
               /\ pc[w] = "done" =>
                     /\ response[w].success
                     /\ response[w].inventory.available_quantity = 0

\* 40/10/50 updated by -45: available floors at 0, total becomes 5.
C9_Witness ==
    \E w \in Workers :
        /\ Finished(w, "UpdateInventory")
        /\ trace[w][1].had
        /\ ExceedsAvailable(w)
        /\ Read(w).reserved_quantity > 0
        /\ Read(w).total_quantity
              = Read(w).available_quantity + Read(w).reserved_quantity
        /\ Written(w).available_quantity = 0
        /\ Written(w).total_quantity > 0
        /\ Ledger(w) = Written(w)
        /\ Ledger(w).total_quantity
              # Ledger(w).available_quantity + Ledger(w).reserved_quantity

(* ------------------------------- C10 ---------------------------------- *)

\* A Release that carries no reservation_id.
ReleaseWithoutId(w) ==
    Handling(w, "ReleaseInventory") /\ request[w].reservation_id = ""

\* C10, the reply and the accesses: a Release with no reservation_id makes
\* no access to a reservation key, and on an existing product it answers
\* success=true.
C10_Reply ==
    \A w \in Workers :
        ReleaseWithoutId(w) =>
            /\ \A i \in DOMAIN trace[w] : ~IsReservationKey(trace[w][i].key)
            /\ Deletes(trace[w]) = {}
            /\ (pc[w] = "done" /\ trace[w][1].had) =>
                  (response[w].success /\ Len(trace[w]) = 3)

\* C10, the store: no step of a Release with no reservation_id adds,
\* changes or removes a reservation record, and a reservation record leaves
\* the store only in the delete step of a Release that carries its id.
C10_Registry ==
    /\ \A w \in Workers :
          (StepBy(w) /\ ReleaseWithoutId(w)) =>
              \A k \in DOMAIN store \cup DOMAIN store' :
                  IsReservationKey(k) =>
                      /\ k \in DOMAIN store /\ k \in DOMAIN store'
                      /\ store'[k] = store[k]
    /\ \A k \in DOMAIN store :
          (IsReservationKey(k) /\ k \notin DOMAIN store') =>
              \E w \in Workers :
                  /\ StepBy(w)
                  /\ Handling(w, "ReleaseInventory")
                  /\ pc[w] = "delete_reservation"
                  /\ k = ReservationKey(request[w].reservation_id)

\* C10: ReleaseInventory without a reservation_id never touches the
\* reservation registry and succeeds on an existing product, so an earlier
\* reservation stays stored; records are removed only by a Release that
\* carries their id.
C10_ReleaseWithoutId == []C10_Reply /\ [][C10_Registry]_vars

\* A Reserve, then a Release of the same product and quantity without the
\* id: the release succeeded and the reservation record is still stored.
C10_Witness ==
    \E w \in Workers :
        /\ Finished(w, "ReleaseInventory")
        /\ request[w].reservation_id = ""
        /\ response[w].success
        /\ \E k \in DOMAIN store :
              /\ IsReservationKey(k)
              /\ store[k].product_id = request[w].product_id
              /\ store[k].quantity = request[w].quantity
        /\ Ledger(w).reserved_quantity = 0

(* ------------------------------- C11 ---------------------------------- *)

\* C11: a Release of quantity q on an existing product writes back
\* available_quantity + q and reserved_quantity - q of the record it read,
\* whatever the reserved_quantity was (no bound, no floor), and answers
\* success=true.
C11_ReleaseUnbounded ==
    \A w \in Workers :
        (Handling(w, "ReleaseInventory") /\ trace[w] # << >>
            /\ trace[w][1].had /\ pc[w] # "save_inventory") =>
            /\ Len(trace[w]) >= 2
            /\ trace[w][2].call = "save_state"
            /\ Written(w).available_quantity =
                  Read(w).available_quantity + request[w].quantity
            /\ Written(w).reserved_quantity =
                  Read(w).reserved_quantity - request[w].quantity
            /\ pc[w] = "done" => response[w].success

\* A Release of more than the reserved_quantity it read has succeeded and
\* the stored reserved_quantity is negative.
C11_Witness ==
    \E w \in Workers :
        /\ Finished(w, "ReleaseInventory")
        /\ response[w].success
        /\ request[w].quantity > Read(w).reserved_quantity
        /\ Written(w).reserved_quantity < 0
        /\ Latest(w)
        /\ Ledger(w).reserved_quantity < 0
        /\ Ledger(w).available_quantity =
              Read(w).available_quantity + request[w].quantity

(* ------------------------------- C12 ---------------------------------- *)

\* C12: every stored product record satisfies
\* total_quantity = available_quantity + reserved_quantity.
C12_LedgerInvariant ==
    \A k \in DOMAIN store :
        IsInventoryKey(k) =>
            store[k].total_quantity =
                store[k].available_quantity + store[k].reserved_quantity

(* ------------------------------- C13 ---------------------------------- *)

\* C13: from the seed data, under any interleaving of Reserve, Release and
\* Update calls with Reserve and Release quantities that are not negative,
\* no stored product record has available_quantity < 0, and no call writes
\* one.
C13_AvailableNonNegative ==
    /\ \A k \in DOMAIN store :
          IsInventoryKey(k) => store[k].available_quantity >= 0
    /\ \A w \in Workers :
          \A i \in Saves(trace[w]) :
              IsInventoryKey(trace[w][i].key) =>
                  trace[w][i].value.available_quantity >= 0

\* An Update whose delta exceeds the available_quantity it read has stored
\* zero, next to a call that reserved stock.
C13_Witness ==
    \E w \in Workers :
        /\ Finished(w, "UpdateInventory")
        /\ trace[w][1].had
        /\ Read(w).available_quantity + request[w].quantity_change < 0
        /\ Read(w).reserved_quantity > 0
        /\ Latest(w)
        /\ Ledger(w).available_quantity = 0

(* ------------------------------- C14 ---------------------------------- *)

\* The last access the call of worker w made.
LastAccess(w) == trace[w][Len(trace[w])]

\* The publication of worker w's call raised.
PublishFailure(w) ==
    trace[w] # << >> /\ LastAccess(w).call = Raised("publish_event")

\* C14, the reply: a call of Reserve, Release or Update whose publication
\* raised has returned success=true with no INTERNAL status; it made one
\* publication attempt and none of its store accesses raised.
C14_Reply ==
    \A w \in Workers :
        PublishFailure(w) =>
            /\ request[w].op \in {"ReserveInventory", "ReleaseInventory",
                                  "UpdateInventory"}
            /\ pc[w] = "done"
            /\ response[w].success
            /\ response[w].message # "Internal error"
            /\ status_code[w] = "OK"
            /\ Cardinality(Attempts(trace[w], "publish_event")) = 1
            /\ RaisedAccesses(trace[w]) = {}

\* C14, the store: the step in which the publication raises changes no
\* stored record and ends the handler.
C14_WritesRemain ==
    \A w \in Workers :
        (pc[w] = "publish" /\ PublishFailure(w)') =>
            /\ store' = store
            /\ pc'[w] = "done"
            /\ \A i \in Saves(trace[w]) :
                  trace'[w][i] = trace[w][i]

\* C14: a failure of the publication in Reserve, Release or Update is not
\* surfaced: the call returns success=true without INTERNAL, what it wrote
\* to the store stays, and the publication is not attempted again.
C14_PublishFailureSwallowed == []C14_Reply /\ [][C14_WritesRemain]_vars

\* A Reserve whose publication raised: it answered success, and its ledger
\* write and its reservation record are stored.
C14_Witness ==
    \E w \in Workers :
        /\ Finished(w, "ReserveInventory")
        /\ PublishFailure(w)
        /\ response[w].success
        /\ status_code[w] = "OK"
        /\ Latest(w)
        /\ Ledger(w) = Written(w)
        /\ ReservationKey(reservation_id[w]) \in DOMAIN store

(* ------------------------------- C15 ---------------------------------- *)

\* A store access of worker w's call raised.
StoreFailure(w) == RaisedAccesses(trace[w]) # {}

\* C15, the reply: a call one of whose store accesses raised has returned;
\* its response has success=false (available=false and available_quantity 0
\* for CheckAvailability) and the message "Internal error", the status is
\* INTERNAL, and the access that raised was the call's last.
C15_Reply ==
    \A w \in Workers :
        StoreFailure(w) =>
            /\ pc[w] = "done"
            /\ IF request[w].op = "CheckAvailability"
               THEN /\ ~response[w].available
                    /\ response[w].available_quantity = 0
               ELSE ~response[w].success
            /\ response[w].message = "Internal error"
            /\ status_code[w] = "INTERNAL"
            /\ RaisedAccesses(trace[w]) = {Len(trace[w])}

\* C15, the step: whatever the operation and the access (get, save, delete)
\* that raises, the same step ends the handler with a response, and the
\* store is as it was.
C15_Caught ==
    \A w \in Workers :
        (pc[w] \in {"get", "save_inventory", "save_reservation",
                    "delete_reservation"} /\ StoreFailure(w)') =>
            /\ pc'[w] = "done"
            /\ response'[w] # Nil
            /\ store' = store

\* C15: in each of the five operations a failure of any store access, at
\* any step, is caught by the handler: the call ends with success=false,
\* the message "Internal error" and the status INTERNAL.
C15_StoreFailureCaught == []C15_Reply /\ [][C15_Caught]_vars

\* A Release whose delete raised, after its ledger write, next to a
\* CheckAvailability whose read raised.
C15_Witness ==
    \E a, b \in Workers :
        /\ Finished(a, "ReleaseInventory")
        /\ Len(trace[a]) = 3
        /\ LastAccess(a).call = Raised("delete_state")
        /\ status_code[a] = "INTERNAL"
        /\ Finished(b, "CheckAvailability")
        /\ LastAccess(b).call = Raised("get_state")
        /\ response[b].message = "Internal error"

(* ------------------------------- C16 ---------------------------------- *)

\* The response of worker w's call reports a failure.
Refused(w) ==
    IF request[w].op = "CheckAvailability"
    THEN ~response[w].available
    ELSE ~response[w].success

\* C16: a response with the message "Product not found" or "Insufficient
\* inventory" reports a failure and comes without the status INTERNAL; the
\* status of a call is INTERNAL exactly when its response carries the
\* message "Internal error", and no status is set before the call returns.
C16_BusinessFailures ==
    \A w \in Workers :
        /\ pc[w] = "done" =>
              /\ response[w].message \in {"Product not found",
                                          "Insufficient inventory"} =>
                    (Refused(w) /\ status_code[w] = "OK")
              /\ status_code[w] = "INTERNAL" <=>
                    response[w].message = "Internal error"
        /\ pc[w] # "done" => status_code[w] = "OK"

\* One call answered "Insufficient inventory" with no status set while
\* another answered "Internal error" with INTERNAL.
C16_Witness ==
    \E a, b \in Workers :
        /\ pc[a] = "done"
        /\ response[a].message = "Insufficient inventory"
        /\ status_code[a] = "OK"
        /\ pc[b] = "done"
        /\ response[b].message = "Internal error"
        /\ status_code[b] = "INTERNAL"

(* ------------------------------- C17 ---------------------------------- *)

\* The inventory keys the bootstrap wrote.
BootstrapKeys ==
    {InventoryKey(sample_products[i].product_id) : i \in DOMAIN sample_products}

\* C17: whatever requests have been served, the keys of the store that are
\* not reservation keys are the inventory keys written at bootstrap, each
\* holding the record of its own product; a Release, Update or Get (like a
\* Reserve or a Check) of a product with no record has answered "Product
\* not found" after its read and written nothing.
C17_InventoryKeysFixed ==
    /\ {k \in DOMAIN store : ~IsReservationKey(k)} = BootstrapKeys
    /\ \A k \in BootstrapKeys :
          k \in DOMAIN store /\ k = InventoryKey(store[k].product_id)
    /\ \A w \in Workers :
          (trace[w] # << >> /\ ~trace[w][1].had) =>
              /\ pc[w] = "done"
              /\ Len(trace[w]) = 1
              /\ response[w].message = "Product not found"
              /\ Refused(w)

\* A Release and an Update of an unknown product have both answered
\* "Product not found"; the store holds the three bootstrap records.
C17_Witness ==
    \E a, b \in Workers :
        /\ Finished(a, "ReleaseInventory")
        /\ Finished(b, "UpdateInventory")
        /\ InventoryKey(request[a].product_id) \notin DOMAIN store
        /\ InventoryKey(request[b].product_id) \notin DOMAIN store
        /\ response[a].message = "Product not found"
        /\ response[b].message = "Product not found"
        /\ Cardinality({k \in DOMAIN store : IsInventoryKey(k)}) = 3

(* ------------------------------- C18 ---------------------------------- *)

RECURSIVE SumQuantities(_, _)
SumQuantities(s, keys) ==
    IF keys = {} THEN 0
    ELSE LET k == CHOOSE x \in keys : TRUE
         IN s[k].quantity + SumQuantities(s, keys \ {k})

\* The total quantity of the reservation records stored for a product.
Outstanding(product_id) ==
    SumQuantities(store, {k \in DOMAIN store :
                             /\ IsReservationKey(k)
                             /\ store[k].product_id = product_id})

\* Two Reserves on one product, issued one after the other, that read the
\* same record and have both reported success.
SameSnapshot(a, b) ==
    /\ a # b
    /\ Finished(a, "ReserveInventory") /\ Finished(b, "ReserveInventory")
    /\ request[a].product_id = request[b].product_id
    /\ response[a].success /\ response[b].success
    /\ callno[a] - callno[b] \in {-1, 1}
    /\ Read(a) = Read(b)

\* C18: when two concurrent Reserves of q1 and q2 on one product have read
\* the same record and both succeeded, both reservation records are stored,
\* while the stored ledger is the write-back of one of the two calls alone:
\* its reserved_quantity has grown by that call's quantity only, less than
\* q1 + q2. With nothing else outstanding when the record was read, the
\* quantities of the stored reservations sum to more than reserved_quantity.
C18_LostUpdate ==
    \A a, b \in Workers :
        SameSnapshot(a, b) =>
            /\ response[a].reservation_id # response[b].reservation_id
            /\ \A w \in {a, b} :
                  LET k == ReservationKey(response[w].reservation_id)
                  IN /\ k \in DOMAIN store
                     /\ store[k].quantity = request[w].quantity
                     /\ store[k].product_id = request[w].product_id
            /\ \E w \in {a, b} :
                  /\ Ledger(a) = Written(w)
                  /\ Ledger(a).available_quantity =
                        Read(a).available_quantity - request[w].quantity
                  /\ Ledger(a).reserved_quantity =
                        Read(a).reserved_quantity + request[w].quantity
            /\ Ledger(a).reserved_quantity - Read(a).reserved_quantity
                  < request[a].quantity + request[b].quantity
            /\ (Outstanding(request[a].product_id)
                    - request[a].quantity - request[b].quantity
                        >= Read(a).reserved_quantity) =>
                  Outstanding(request[a].product_id)
                      > Ledger(a).reserved_quantity

\* From the seed state, Reserves of 10 and of 20 both succeeded on one
\* snapshot: reservations for 30 are stored and reserved_quantity is 20.
C18_Witness ==
    \E a, b \in Workers :
        /\ SameSnapshot(a, b)
        /\ request[a].quantity < request[b].quantity
        /\ Read(a).reserved_quantity = 0
        /\ Ledger(a) = Written(b)
        /\ Outstanding(request[a].product_id)
              = request[a].quantity + request[b].quantity
        /\ Outstanding(request[a].product_id) > Ledger(a).reserved_quantity

(* ------------------------------- C19 ---------------------------------- *)

\* The save of worker w's reservation record raised, after its ledger
\* write-back went through.
ReservationSaveFailed(w) ==
    /\ Handling(w, "ReserveInventory")
    /\ Len(trace[w]) >= 3
    /\ trace[w][2].call = "save_state"
    /\ trace[w][3].call = Raised("save_state")

\* C19, the reply and the accesses: a Reserve whose reservation save raised
\* after its ledger write-back has returned success=false with the message
\* "Internal error", no reservation_id and the status INTERNAL; the ledger
\* write-back (available_quantity less the quantity, reserved_quantity plus
\* the quantity) is the only write the call made, no record is stored under
\* the reservation id it drew, and it attempted no publication.
C19_Reply ==
    \A w \in Workers :
        ReservationSaveFailed(w) =>
            /\ pc[w] = "done"
            /\ ~response[w].success
            /\ response[w].message = "Internal error"
            /\ response[w].reservation_id = ""
            /\ status_code[w] = "INTERNAL"
            /\ Len(trace[w]) = 3
            /\ Saves(trace[w]) = {2}
            /\ trace[w][2].key = InventoryKey(request[w].product_id)
            /\ Written(w).available_quantity =
                  Read(w).available_quantity - request[w].quantity
            /\ Written(w).reserved_quantity =
                  Read(w).reserved_quantity + request[w].quantity
            /\ Attempts(trace[w], "publish_event") = {}
            /\ reservation_id[w] # ""
            /\ ReservationKey(reservation_id[w]) \notin DOMAIN store
            /\ \A k \in DOMAIN store :
                  IsReservationKey(k) =>
                      store[k].reservation_id # reservation_id[w]

\* C19, the store: the step in which the reservation save raises leaves the
\* store as it was, ledger write-back included.
C19_NoRollback ==
    \A w \in Workers :
        (pc[w] = "save_reservation" /\ ReservationSaveFailed(w)') =>
            /\ store' = store
            /\ pc'[w] = "done"

\* C19: ReserveInventory is not atomic across its two writes: when the save
\* of the reservation record fails after the ledger write-back, the call
\* answers success=false "Internal error" while the ledger keeps the
\* mutation, no reservation record exists for it, no event is published and
\* nothing is rolled back.
C19_ReserveNotAtomic == []C19_Reply /\ [][C19_NoRollback]_vars

\* A Reserve of the seed stock failed on its reservation save: the stored
\* ledger has reserved_quantity = quantity and no reservation is stored.
C19_Witness ==
    \E w \in Workers :
        /\ Finished(w, "ReserveInventory")
        /\ ReservationSaveFailed(w)
        /\ Latest(w)
        /\ Ledger(w) = Written(w)
        /\ Ledger(w).reserved_quantity = request[w].quantity
        /\ Ledger(w).available_quantity = 0
        /\ Outstanding(request[w].product_id) = 0

(* ------------------------------- C20 ---------------------------------- *)

\* The topic of each mutating operation.
TopicOf(op) ==
    CASE op = "ReserveInventory" -> "inventory.reserved"
      [] op = "ReleaseInventory" -> "inventory.released"
      [] op = "UpdateInventory" -> "inventory.updated"
      [] OTHER -> ""

\* The store writes a successful call of the operation makes, by position
\* in its accesses (after the read): the ledger save, then the reservation
\* save of a Reserve or the reservation delete of a Release with an id.
WritesDone(w) ==
    /\ 2 \in Saves(trace[w])
    /\ request[w].op = "ReserveInventory" => 3 \in Saves(trace[w])
    /\ (request[w].op = "ReleaseInventory" /\ request[w].reservation_id # "")
           => 3 \in Deletes(trace[w])

\* C20: a call of Reserve, Release or Update that has returned success=true
\* attempted exactly one publication, on inventory.reserved,
\* inventory.released or inventory.updated respectively, and it was the
\* call's last access, after all its store writes; a call that has returned
\* success=false attempted none, nor has a call that is still running, nor
\* does CheckAvailability or GetInventory ever.
C20_OnePublication ==
    \A w \in Workers :
        LET attempts == Attempts(trace[w], "publish_event")
        IN IF pc[w] = "done" /\ TopicOf(request[w].op) # ""
           THEN IF response[w].success
                THEN /\ attempts = {Len(trace[w])}
                     /\ LastAccess(w).key = TopicOf(request[w].op)
                     /\ LastAccess(w).value.event_type = TopicOf(request[w].op)
                     /\ WritesDone(w)
                     /\ \A i \in Saves(trace[w]) \cup Deletes(trace[w]) :
                           i < Len(trace[w])
                ELSE attempts = {}
           ELSE attempts = {}

\* A Release that carries a reservation id has succeeded: read, ledger
\* save, reservation delete, then its one publication on
\* inventory.released; the other worker's Reserve failed and published
\* nothing.
C20_Witness ==
    \E a, b \in Workers :
        /\ Finished(a, "ReleaseInventory")
        /\ response[a].success
        /\ Len(trace[a]) = 4
        /\ trace[a][3].call = "delete_state"
        /\ trace[a][4].call = "publish_event"
        /\ trace[a][4].key = "inventory.released"
        /\ Finished(b, "ReserveInventory")
        /\ ~response[b].success
        /\ Attempts(trace[b], "publish_event") = {}

(* ------------------------------- C21 ---------------------------------- *)

\* The store accesses of a call (its publication is not one).
StoreAccesses(tr) == Gets(tr) \cup Saves(tr) \cup Deletes(tr)

\* C21, the keys: every store access of a call with product_id p is on the
\* key inventory:p or on a reservation key, and a call touches at most one
\* reservation key.
C21_Keys ==
    \A w \in Workers :
        LET used == {trace[w][i].key : i \in StoreAccesses(trace[w])}
        IN /\ \A k \in used :
                 k = InventoryKey(request[w].product_id) \/ IsReservationKey(k)
           /\ Cardinality({k \in used : IsReservationKey(k)}) <= 1

\* The product a step of worker w is made for.
Addressed(w) ==
    IF pc[w] = "idle" THEN request'[w].product_id ELSE request[w].product_id

\* C21, the steps: a step of a call with product_id p leaves the inventory
\* record of every other product as it was.
C21_Isolated ==
    \A w \in Workers :
        StepBy(w) =>
            \A p \in ProductIds \ {Addressed(w)} :
                /\ InventoryKey(p) \in DOMAIN store
                      <=> InventoryKey(p) \in DOMAIN store'
                /\ InventoryKey(p) \in DOMAIN store =>
                      store'[InventoryKey(p)] = store[InventoryKey(p)]

\* What a call leaves in its product's record when it is the only call
\* addressed to that product since the bootstrap.
Alone(req) ==
    LET data == InitializeSampleData(EmptyStore, 1)[InventoryKey(req.product_id)]
    IN CASE req.op = "ReserveInventory" ->
                IF data.available_quantity < req.quantity THEN data
                ELSE ReserveUpdate(data, req.quantity)
         [] req.op = "ReleaseInventory" -> ReleaseUpdate(data, req.quantity)
         [] req.op = "UpdateInventory" ->
                UpdateQuantities(data, req.quantity_change)
         [] OTHER -> data

\* C21, the outcome: when two calls addressed to different products have
\* been interleaved in any way, a finished one has left in its product's
\* record what it leaves when it runs with no other call.
C21_Projection ==
    \A a, b \in Workers :
        (/\ calls = 2
         /\ pc[a] # "idle" /\ pc[b] = "done"
         /\ request[a].product_id # request[b].product_id) =>
            Ledger(b) = Alone(request[b])

\* C21: calls on different products do not interfere: a call with
\* product_id p reads and writes only inventory:p and at most one
\* reservation key, every other product's record is unchanged by it, and
\* the record of a product is what the calls addressed to it alone produce.
C21_NoInterference ==
    [](C21_Keys /\ C21_Projection) /\ [][C21_Isolated]_vars

\* A Reserve on one product and an Update on another have been interleaved
\* and both succeeded; each record holds its own call's result.
C21_Witness ==
    \E a, b \in Workers :
        /\ Finished(a, "ReserveInventory")
        /\ Finished(b, "UpdateInventory")
        /\ response[a].success /\ response[b].success
        /\ request[a].product_id # request[b].product_id
        /\ calls = 2
        /\ Ledger(a).reserved_quantity = request[a].quantity
        /\ Ledger(b).total_quantity =
              Read(b).total_quantity + request[b].quantity_change
        /\ Ledger(b).reserved_quantity = 0

(* ------------------------------- C22 ---------------------------------- *)

\* C22: every reservation record in the store has a positive quantity,
\* whatever the quantities of the ReserveInventory requests were.
C22_PositiveQuantities ==
    \A k \in DOMAIN store :
        IsReservationKey(k) => store[k].quantity > 0

(* ------------------------------- C23 ---------------------------------- *)

\* A Release that carries a reservation_id, on a product that has a record.
ReleaseWithId(w) ==
    /\ Handling(w, "ReleaseInventory")
    /\ request[w].reservation_id # ""
    /\ trace[w] # << >>
    /\ trace[w][1].had

\* C23, the call: a Release with a reservation_id never reads a reservation
\* key; once it has returned it has adjusted the ledger by its quantity,
\* made one delete on the key of the id it was given, and answered
\* success=true, whether or not a record was stored under that key.
C23_Reply ==
    \A w \in Workers :
        ReleaseWithId(w) =>
            /\ \A i \in Gets(trace[w]) : ~IsReservationKey(trace[w][i].key)
            /\ pc[w] = "done" =>
                  /\ response[w].success
                  /\ Len(trace[w]) = 4
                  /\ Written(w).available_quantity =
                        Read(w).available_quantity + request[w].quantity
                  /\ Written(w).reserved_quantity =
                        Read(w).reserved_quantity - request[w].quantity
                  /\ Deletes(trace[w]) = {3}
                  /\ trace[w][3].key = ReservationKey(request[w].reservation_id)

\* C23, the delete: the delete step removes whatever record is stored under
\* the key of the id, with no regard to the record's product_id or
\* quantity, and changes nothing else; with no record there it changes
\* nothing.
C23_Delete ==
    \A w \in Workers :
        (pc[w] = "delete_reservation" /\ StepBy(w)) =>
            LET key == ReservationKey(request[w].reservation_id)
            IN /\ DOMAIN store' = DOMAIN store \ {key}
               /\ \A k \in DOMAIN store' : store'[k] = store[k]
               /\ key \notin DOMAIN store => store' = store

\* C23: the registry delete of ReleaseInventory does not depend on the
\* record: for an id with no record it is a no-op and the call still
\* succeeds and adjusts the ledger; for an id with a record the record is
\* deleted unread, even when its product_id or quantity differ from the
\* request's.
C23_UnconditionalDelete == []C23_Reply /\ [][C23_Delete]_vars

\* A Release on one product, with another quantity, carried the id of a
\* reservation made on a different product: it succeeded and the record is
\* gone.
C23_Witness ==
    \E a, b \in Workers :
        /\ Finished(a, "ReleaseInventory")
        /\ Finished(b, "ReserveInventory")
        /\ response[a].success /\ response[b].success
        /\ request[a].reservation_id = response[b].reservation_id
        /\ request[a].product_id # request[b].product_id
        /\ request[a].quantity # request[b].quantity
        /\ trace[a][3].had
        /\ ReservationKey(request[a].reservation_id) \notin DOMAIN store

(* ------------------------------- C24 ---------------------------------- *)

\* total_quantity = available_quantity + reserved_quantity
Balanced(data) ==
    data.total_quantity = data.available_quantity + data.reserved_quantity

\* C24: as long as no UpdateInventory has floored a quantity, sequentially
\* or under any interleaving, every stored product record satisfies
\* total_quantity = available_quantity + reserved_quantity, and so does
\* every record a call read or wrote back; Reserve and Release write back
\* the total_quantity they read.
C24_BalancedWithoutFloor ==
    /\ \A k \in DOMAIN store : IsInventoryKey(k) => Balanced(store[k])
    /\ \A w \in Workers :
          \A i \in DOMAIN trace[w] :
              (IsInventoryKey(trace[w][i].key)
                  /\ trace[w][i].call \in {"get_state", "save_state"}
                  /\ trace[w][i].value # Nil) =>
                  /\ Balanced(trace[w][i].value)
                  /\ (i = 2 /\ request[w].op \in {"ReserveInventory",
                                                  "ReleaseInventory"}) =>
                        /\ Written(w).total_quantity = Read(w).total_quantity
                        /\ Written(w).available_quantity
                               + Written(w).reserved_quantity
                           = Read(w).available_quantity
                               + Read(w).reserved_quantity

\* A Reserve and an Update with a negative delta read the same record and
\* both wrote back; the stored record, one call's write, is balanced.
C24_Witness ==
    \E a, b \in Workers :
        /\ Finished(a, "ReserveInventory")
        /\ Finished(b, "UpdateInventory")
        /\ response[a].success /\ response[b].success
        /\ request[b].quantity_change < 0
        /\ Read(a) = Read(b)
        /\ Ledger(a) \in {Written(a), Written(b)}
        /\ Balanced(Ledger(a))

(* ------------------------------- C25 ---------------------------------- *)

\* Worker w's call on the product has written the ledger and not yet the
\* registry.
BetweenWrites(w, product_id) ==
    /\ pc[w] \in {"save_reservation", "delete_reservation"}
    /\ request[w].product_id = product_id

\* C25: in a serialized, failure-free run from the seed state made of
\* Reserves with a positive quantity and of Releases that carry the id, the
\* product_id and the quantity of a stored reservation, the
\* reserved_quantity of each product equals the sum of the quantities of
\* the product's stored reservation records in every state in which no call
\* is between its ledger write and its registry write; between the two
\* writes of a call the two differ by that call's quantity.
C25_ReservedIsOutstanding ==
    \A i \in DOMAIN sample_products :
        LET p == sample_products[i].product_id
            reserved == store[InventoryKey(p)].reserved_quantity
        IN /\ (\A w \in Workers : ~BetweenWrites(w, p)) =>
                  reserved = Outstanding(p)
           /\ \A w \in Workers :
                 BetweenWrites(w, p) =>
                     reserved = Outstanding(p)
                         + (IF request[w].op = "ReserveInventory"
                            THEN request[w].quantity
                            ELSE 0 - request[w].quantity)

\* Two Reserves and the Release of the first: one reservation is stored
\* and reserved_quantity equals its quantity.
C25_Witness ==
    \E w \in Workers :
        /\ Finished(w, "ReleaseInventory")
        /\ response[w].success
        /\ calls = 3
        /\ \A v \in Workers : ~BetweenWrites(v, request[w].product_id)
        /\ Outstanding(request[w].product_id) > 0
        /\ Ledger(w).reserved_quantity = Outstanding(request[w].product_id)
        /\ ReservationKey(request[w].reservation_id) \notin DOMAIN store

(* ------------------------------- C26 ---------------------------------- *)

\* The seed quantity of each sample product.
SeedOf(product_id) ==
    CASE product_id = "prod-001" -> Seed001
      [] product_id = "prod-002" -> Seed002
      [] product_id = "prod-003" -> Seed003

\* The record is the one the bootstrap writes for the product.
Seeded(data, product_id) ==
    /\ data.product_id = product_id
    /\ data.reserved_quantity = 0
    /\ data.available_quantity = SeedOf(product_id)
    /\ data.total_quantity = SeedOf(product_id)
    /\ "last_updated" \notin DOMAIN data

\* C26, the step: whatever the store holds, a restart leaves under the
\* inventory keys of prod-001, prod-002 and prod-003 their seed records
\* (reserved_quantity 0, available = total = 50, 200, 75) and leaves every
\* other stored record, reservation records included, as it was.
C26_Restart ==
    Restart =>
        /\ \A p \in {"prod-001", "prod-002", "prod-003"} :
              /\ InventoryKey(p) \in DOMAIN store'
              /\ Seeded(store'[InventoryKey(p)], p)
        /\ \A k \in DOMAIN store :
              IsReservationKey(k) =>
                  k \in DOMAIN store' /\ store'[k] = store[k]
        /\ \A k \in DOMAIN store' :
              IsReservationKey(k) => k \in DOMAIN store

\* C26: the seeding at construction is unconditional: it overwrites the
\* three inventory records with their seed values whatever is stored, and
\* keeps the reservation records.
C26_UnconditionalSeeding == [][C26_Restart]_vars

\* After a Reserve and a restart: the record of the product is its seed
\* record, with reserved_quantity 0, and the reservation is still stored.
C26_Witness ==
    /\ \A w \in Workers : pc[w] = "idle"
    /\ calls > 0
    /\ Seeded(store[InventoryKey("prod-001")], "prod-001")
    /\ store[InventoryKey("prod-001")].reserved_quantity = 0
    /\ Outstanding("prod-001") > 0

(* ------------------------------- C27 ---------------------------------- *)

C27_Returns ==
    \A i \in DOMAIN events :
        /\ events[i].topic \in {"order.created", "order.cancelled"}
        /\ events[i].returned.success <=> events[i].data \in {OrderPayload, "{}"}
        /\ events[i].data \in {"[]", "not json"} => ~events[i].returned.success

\* C27, the state: the run of an event handler, on any event, a repeated
\* one included, changes neither the ledger nor the reservation registry,
\* makes no access to the store or the bus, and disturbs no running call.
C27_NoChange ==
    events' # events =>
        /\ store' = store
        /\ trace' = trace
        /\ issued' = issued
        /\ pc' = pc /\ response' = response /\ inventory_data' = inventory_data
        /\ Len(events') = Len(events) + 1

Spells(status, j) ==
    /\ Len(status) = Len(StatusKeys[j])
    /\ \A i \in DOMAIN status :
          \E k \in DOMAIN LowerCase :
             /\ StatusKeys[j][i] = LowerCase[k]
             /\ status[i] \in {LowerCase[k], UpperCase[k]}

\* The request carries the status the given string spells, and
\* UNSPECIFIED when it spells none of the seven.
C28_Mapped ==
    \A i \in DOMAIN sent :
       /\ \A j \in DOMAIN StatusKeys :
             Spells(sent[i].argument, j) => sent[i].status = StatusValues[j]
       /\ (\A j \in DOMAIN StatusKeys : ~Spells(sent[i].argument, j))
             => sent[i].status = "ORDER_STATUS_UNSPECIFIED"

\* Whatever the order's status, the call sends its request for every string.
C28_Sends ==
    Len(sent) < MaxUpdates =>
       \A o \in OrderIds, s \in StatusStrings :
          ENABLED (/\ update_order(o, s)
                   /\ sent'[Len(sent')].order_id = o
                   /\ sent'[Len(sent')].argument = s)

\* C28: update_order maps the status string, whatever its letter case, to
\* the status it spells among pending, confirmed, processing, shipped,
\* delivered, cancelled and failed, maps every other string to UNSPECIFIED,
\* and sends the request for every string and every current status of the
\* order, which it neither reads nor changes.
C28_UpdateOrderMapping ==
    /\ [](C28_Mapped /\ C28_Sends)
    /\ [][order_status' = order_status
          /\ (sent' # sent => /\ Len(sent') = Len(sent) + 1
                              /\ SubSeq(sent', 1, Len(sent)) = sent)]_vars

\* A delivered order for which PENDING was requested by the string
\* "PENDING" and UNSPECIFIED by the string "refunded".
C28_Witness ==
    /\ order_status = "ORDER_STATUS_DELIVERED"
    /\ \E i \in DOMAIN sent :
          /\ sent[i].argument = << "P", "E", "N", "D", "I", "N", "G" >>
          /\ sent[i].status = "ORDER_STATUS_PENDING"
    /\ \E i \in DOMAIN sent :
          /\ sent[i].argument = << "r", "e", "f", "u", "n", "d", "e", "d" >>
          /\ sent[i].status = "ORDER_STATUS_UNSPECIFIED"

====
